---- MODULE Spec2Model ----
(***************************************************************************)
(* A model of the email-reminders bot: the Gmail push webhook with its     *)
(* history checkpoint (app.py gmail_webhook, gmail_client.py), the due     *)
(* reminder dispatcher (app.py dispatch_due_reminders), the Telegram       *)
(* conversation handlers (app.py telegram_webhook) and the sheet-backed    *)
(* reminder store (sheets_repo.py).                                        *)
(***************************************************************************)
EXTENDS Integers, Sequences, FiniteSets, TLC

\* ------------------------------------------------------------------ bounds
MaxHist == 3      \* history ids range over 1..MaxHist
MaxPages == 2     \* pages of one history.list pass
MaxRecs == 1      \* history records on one page
MaxMsg == 2       \* Gmail message ids range over 1..MaxMsg
MaxNow == 1       \* the clock runs from 0 to MaxNow (hours)
MaxRows == 1      \* reminders the sheet is given
MaxCards == 2     \* live control cards counted per reminder

\* ------------------------------------------------------------------ values
None == [kind |-> "none"]

\* A history id is a JSON number or a string; str() keeps the number.
IntId(n) == [kind |-> "int", n |-> n]
StrId(n) == [kind |-> "str", n |-> n]
StrIds == {StrId(n) : n \in 1..MaxHist}
HistVals == {IntId(n) : n \in 1..MaxHist} \cup StrIds

\* Python's str() on a history id.
PyStr(v) == [kind |-> "str", n |-> v.n]

\* The number a history id stands for; 0 for None
Num(v) == IF v = None THEN 0 ELSE v.n

Msgs == 1..MaxMsg
LabelSets == {{}, {"INBOX"}, {"SENT"}}

Max2(a, b) == IF a >= b THEN a ELSE b

RECURSIVE SortedSeq(_)
\* Python's sorted() of a set of message ids
SortedSeq(S) ==
    IF S = {} THEN <<>>
    ELSE LET m == CHOOSE x \in S : \A y \in S : x <= y
         IN <<m>> \o SortedSeq(S \ {m})

Range(s) == {s[i] : i \in DOMAIN s}

\* ------------------------------------------------------------------ state
VARIABLES
    cfg,                \* which collaborators create_app could initialise
    LAST_HISTORY_ID,    \* app.config["LAST_HISTORY_ID"]
    config_sheet,       \* the persisted Config value "last_history_id"
    gw,                 \* the gmail_webhook requests in flight, per worker
    now,                \* the wall clock, in hours
    rows,               \* the Reminders worksheet below its header row
    dp,                 \* the dispatch_due_reminders requests in flight
    tg,                 \* the telegram_webhook requests in flight
    manual_new_state,   \* app.py 17
    custom_datetime_state, \* app.py 29
    sentDue,            \* per reminder: the due_at its last card was sent for
    nsent,              \* per reminder: cards sent since it last became pending
    liveCards,          \* per reminder: control cards whose keyboard is live
    nextId,             \* how many reminder ids uuid4 has handed out
    chatFlow            \* per chat: progress of a /new, text, offset sequence

vars == <<cfg, LAST_HISTORY_ID, config_sheet, gw, now, rows, dp, tg,
          manual_new_state, custom_datetime_state, sentDue, nsent, liveCards,
          nextId, chatFlow>>

\* ------------------------------------------------------------ configuration
\* create_app: each collaborator is None when its settings are missing.
\* `sender` is settings.target_sender_email, which config.py leaves None when
\* only ALLOWED_SENDER_EMAILS is set.
FullConfig ==
    [bot |-> TRUE, repo |-> TRUE, gmail |-> TRUE, user |-> TRUE, sender |-> TRUE]

\* Everything configured, or exactly one collaborator missing.
MailConfigs ==
    {FullConfig} \cup {[FullConfig EXCEPT ![f] = FALSE] :
                         f \in {"bot", "repo", "gmail", "user", "sender"}}

\* create_app, lines 86-97: the checkpoint is read back from the Config sheet
\* only when both the Gmail client and the repo exist.
LoadLastHistoryId(c, sheet) ==
    IF c.gmail /\ c.repo THEN sheet ELSE None

\* ReminderStore.writeConfigValue("last_history_id", value): the write either
\* lands or raises (the callers catch and log).
WriteConfigValue(sheet, value, ok) ==
    IF ok THEN value ELSE sheet

\* ------------------------------------------------------------ the sheet
\* A cell holding a datetime's isoformat(), and an empty cell.
IsoFormat(t) == [iso |-> t]
Blank == [blank |-> TRUE]
FromIsoFormat(c) == c.iso

\* str(uuid.uuid4()): the i-th id handed out.
Uuid(i) == ToString(i)
ReminderIds == {Uuid(i) : i \in 1..MaxRows}

\* sheets_repo.py 116-132: the row create_reminder appends; None becomes "".
ReminderRow(reminder) ==
    [reminder_id |-> reminder.reminder_id,
     source_type |-> reminder.source_type,
     gmail_message_id |-> reminder.gmail_message_id,
     subject |-> reminder.subject,
     sender |-> reminder.sender,
     recipient |-> reminder.recipient,
     description |-> reminder.description,
     telegram_chat_id |-> reminder.telegram_chat_id,
     due_at |-> IsoFormat(reminder.due_at),
     status |-> reminder.status]

\* A row of empty cells.
BlankRow ==
    [reminder_id |-> "", source_type |-> "", gmail_message_id |-> 0,
     subject |-> <<>>, sender |-> <<>>, recipient |-> <<>>, description |-> "",
     telegram_chat_id |-> 0, due_at |-> Blank, status |-> ""]

\* sheets_repo.py 132: worksheet.append_row
AppendRow(sheet, row) == Append(sheet, row)

\* sheets_repo.py 134-183: rows without a reminder_id or a due_at are skipped.
IsReminderRow(row) == row.reminder_id # "" /\ row.due_at # Blank

\* sheets_repo.py 171-183: the Reminder of a row (the fields the handlers use).
RowToReminder(row, row_number) ==
    [reminder_id |-> row.reminder_id, due_at |-> FromIsoFormat(row.due_at),
     status |-> row.status, row_number |-> row_number]

RECURSIVE AllRemindersFrom(_, _)
AllRemindersFrom(sheet, idx) ==
    IF idx >= Len(sheet) THEN <<>>
    ELSE (IF IsReminderRow(sheet[idx + 1])
          THEN <<RowToReminder(sheet[idx + 1], idx + 2)>>
          ELSE <<>>) \o AllRemindersFrom(sheet, idx + 1)

\* sheets_repo.py 185-200: row_number = idx + 2, the header being row 1.
GetAllReminders(sheet) == AllRemindersFrom(sheet, 0)

\* sheets_repo.py 211
IsDue_IgnoresStatus(r, t) == r.due_at <= t

IsDue(r, t) == r.status = "pending" /\ r.due_at <= t

\* sheets_repo.py 202-213
GetDueReminders(sheet, t) ==
    SelectSeq(GetAllReminders(sheet), LAMBDA r : IsDue(r, t))

\* sheets_repo.py 221-222, 244-245, 256-257: the row number of the first
\* reminder with the id, 0 when there is none.
FindRowNumber(reminders, reminder_id) ==
    IF \E i \in DOMAIN reminders : reminders[i].reminder_id = reminder_id
    THEN reminders[CHOOSE i \in DOMAIN reminders :
                     /\ reminders[i].reminder_id = reminder_id
                     /\ \A j \in 1..(i - 1) : reminders[j].reminder_id # reminder_id
                  ].row_number
    ELSE 0

\* worksheet.update_cell(row_number, column, value): a row below the data is
\* created by the write.
UpdateCell(sheet, row_number, column, value) ==
    LET i == row_number - 1
        padded == sheet \o [k \in 1..(i - Len(sheet)) |-> BlankRow]
    IN [padded EXCEPT ![i] = [@ EXCEPT ![column] = value]]

\* worksheet.delete_rows(row_number): the rows below move up.
DeleteRows_Below(sheet, row_number) ==
    LET i == row_number
    IN IF i > Len(sheet) THEN sheet
       ELSE [k \in 1..(Len(sheet) - 1) |-> IF k < i THEN sheet[k] ELSE sheet[k + 1]]

DeleteRows(sheet, row_number) ==
    LET i == row_number - 1
    IN IF i > Len(sheet) THEN sheet
       ELSE [k \in 1..(Len(sheet) - 1) |-> IF k < i THEN sheet[k] ELSE sheet[k + 1]]

\* The reminder ids in the sheet, and the row of one of them.
IdsIn(sheet) == {sheet[i].reminder_id : i \in DOMAIN sheet} \ {""}
RowOf(sheet, id) == sheet[CHOOSE i \in DOMAIN sheet : sheet[i].reminder_id = id]

\* ------------------------------------------------------------ mail sync
MailProcs == {"w1", "w2"}

IdleGw ==
    [pc |-> "idle", mode |-> "", history_id |-> None, last |-> None,
     latest |-> None, ids |-> {}, new_message_ids |-> <<>>,
     page |-> 0, recno |-> 0,
     \* what the pass did, kept for the properties
     failed |-> FALSE, queries |-> 0, cards |-> {}, persisted |-> "none",
     obsMax |-> 0, obsLast |-> 0, obsSorted |-> TRUE,
     obsTracked |-> {}, obsUntracked |-> {}, obsAdds |-> 0,
     raised |-> FALSE]

\* The Pub/Sub envelopes: no data field, undecodable data, or a Gmail
\* notification whose historyId is a number, a string, or missing.
Signals ==
    {[kind |-> "nodata"], [kind |-> "garbled"]}
    \cup {[kind |-> "push", historyId |-> h] : h \in HistVals \cup {None}}

\* One history record as history.list returns it: an id (or none) and at most
\* one messagesAdded entry, whose message may lack an id.
HistoryRecords ==
    {[id |-> i, messagesAdded |-> ms] :
        i \in StrIds \cup {None},
        ms \in {<<>>} \cup {<<[id |-> m, labelIds |-> l]>> :
                                m \in Msgs \cup {0}, l \in LabelSets}}

\* gmail_client.py 276-288: one history record of a page.
ProcessRecord_AnyLabel(g, rec, label_ids) ==
    LET latest == IF rec.id # None THEN rec.id ELSE g.latest
        added == {rec.messagesAdded[i].id : i \in
                    {j \in DOMAIN rec.messagesAdded : rec.messagesAdded[j].id # 0}}
    IN [g EXCEPT !.latest = latest, !.ids = g.ids \cup added]

ProcessRecord(g, rec, label_ids) ==
    LET latest == IF rec.id # None THEN rec.id ELSE g.latest
        added == {rec.messagesAdded[i].id : i \in
                    {j \in DOMAIN rec.messagesAdded :
                        /\ rec.messagesAdded[j].id # 0
                        /\ rec.messagesAdded[j].labelIds \cap label_ids # {}}}
    IN [g EXCEPT !.latest = latest, !.ids = g.ids \cup added]

\* gmail_client.py 290-292: the page's top-level historyId, when present.
ProcessTopLevel_Ignored(g, historyId) == g

ProcessTopLevel(g, historyId) ==
    [g EXCEPT !.latest = IF historyId # None THEN historyId ELSE g.latest]

\* What the pass has seen of history ids so far (for the properties only).
Observe(g, v) ==
    IF v = None THEN g
    ELSE [g EXCEPT !.obsMax = Max2(g.obsMax, v.n), !.obsLast = v.n,
                   !.obsSorted = g.obsSorted /\ v.n >= g.obsLast]

\* The addition events of a record as the provider sent them: the messages
\* that carry the INBOX label and those that do not (for the properties only).
ObserveAdded(g, rec) ==
    LET events == {rec.messagesAdded[i] : i \in DOMAIN rec.messagesAdded}
        inbox == {e.id : e \in {x \in events : x.id # 0 /\ "INBOX" \in x.labelIds}}
        other == {e.id : e \in {x \in events : x.id # 0 /\ "INBOX" \notin x.labelIds}}
    IN [g EXCEPT !.obsTracked = @ \cup inbox, !.obsUntracked = @ \cup other,
                 !.obsAdds = @ + Cardinality(inbox)]

\* ---- sender filter (app.py 1582-1609)
\* str.lower() on the letters the headers use.
LowerChar(c) ==
    CASE c = "A" -> "a" [] c = "B" -> "b" [] c = "C" -> "c" [] OTHER -> c

Lower(s) == [i \in DOMAIN s |-> LowerChar(s[i])]

\* Python's `needle in haystack` on strings.
IsSubstring(needle, hay) ==
    \E k \in 0..(Len(hay) - Len(needle)) :
        \A i \in 1..Len(needle) : hay[k + i] = needle[i]

\* settings.target_sender_email
target_sender_email == <<"a", "@", "b">>

\* The From header get_message_metadata returns for each message: odd ids
\* come from the target sender (in another letter case), even ids do not.
FromHeader(m) ==
    IF m % 2 = 1 THEN <<"A", " ", "<", "A", "@", "B", ">">>
    ELSE <<"C", " ", "<", "c", "@", "b", ">">>

\* app.py 1587
SenderMatches_Any(m) == TRUE

SenderMatches(m) ==
    IsSubstring(Lower(target_sender_email), Lower(FromHeader(m)))

\* app.py 1572-1609: the messages kept, given those whose metadata fetch fails.
MatchedMessages(new_message_ids, metaFails) ==
    SelectSeq(new_message_ids, LAMBDA m : m \notin metaFails /\ SenderMatches(m))

\* app.py 1614-1656: the messages a card is sent for, given the sends that fail.
CardsSent(c, matched, sendFails) ==
    IF c.bot /\ c.user THEN Range(matched) \ sendFails ELSE {}

\* gmail_client.py 309-312: on HttpError the client drops what it collected
\* and returns ([], start_history_id).
HttpErrorResult_KeepsPartial(g) ==
    [g EXCEPT !.new_message_ids = SortedSeq(g.ids)]

HttpErrorResult(g) ==
    [g EXCEPT !.new_message_ids = <<>>, !.latest = PyStr(g.last)]

\* app.py 1504: the value the bootstrap stores in memory.
BootstrapValue_Forgotten(history_id) == None

BootstrapValue(history_id) == history_id

\* app.py 1555
ShouldUpdate(latest, last) == latest # None /\ latest # last

\* app.py 1562: what is written to the Config sheet after a pass.
CheckpointToPersist_Old(g) == PyStr(g.last)

CheckpointToPersist(g) == PyStr(g.latest)

\* ---- requests in flight
MailProcsIdle == \A q \in DOMAIN gw : gw[q].pc = "idle"
DispProcsIdle == \A q \in DOMAIN dp : dp[q].pc = "idle"
TgProcsIdle == \A q \in DOMAIN tg : tg[q].pc = "idle"

\* No request is being handled.
Quiet == MailProcsIdle /\ DispProcsIdle /\ TgProcsIdle

\* What a mail step leaves alone.
MailFrame ==
    UNCHANGED <<cfg, now, rows, dp, tg, manual_new_state, custom_datetime_state,
                sentDue, nsent, liveCards, nextId, chatFlow>>

\* ---- gmail_webhook, step by step
\* A serial deployment (one worker) handles one request at a time.
MayStart(p, serial) ==
    serial => (p = "w1" /\ Quiet)

\* app.py 1462-1527: the envelope is decoded; without a checkpoint the
\* notification's historyId becomes the baseline.
GmailWebhookStart(p, serial) ==
    /\ gw[p].pc = "idle"
    /\ MayStart(p, serial)
    /\ \E sig \in Signals, ok \in BOOLEAN :
        IF ~cfg.gmail THEN
            /\ gw' = [gw EXCEPT ![p] = [IdleGw EXCEPT !.pc = "done",
                                          !.mode = "gmail_client_not_configured"]]
            /\ UNCHANGED <<LAST_HISTORY_ID, config_sheet>>
        ELSE IF sig.kind = "nodata" THEN
            /\ gw' = [gw EXCEPT ![p] = [IdleGw EXCEPT !.pc = "done", !.mode = "ignored"]]
            /\ UNCHANGED <<LAST_HISTORY_ID, config_sheet>>
        ELSE IF sig.kind = "garbled" THEN
            /\ gw' = [gw EXCEPT ![p] = [IdleGw EXCEPT !.pc = "done",
                                          !.mode = "decode_failed"]]
            /\ UNCHANGED <<LAST_HISTORY_ID, config_sheet>>
        ELSE IF LAST_HISTORY_ID = None THEN
            /\ LAST_HISTORY_ID' = BootstrapValue(sig.historyId)
            /\ IF cfg.repo /\ sig.historyId # None
               THEN config_sheet' = WriteConfigValue(config_sheet, PyStr(sig.historyId), ok)
               ELSE UNCHANGED config_sheet
            /\ gw' = [gw EXCEPT ![p] =
                  [IdleGw EXCEPT !.pc = "done", !.mode = "bootstrap",
                                 !.history_id = sig.historyId,
                                 !.persisted =
                                    IF cfg.repo /\ sig.historyId # None
                                    THEN (IF ok THEN "ok" ELSE "failed")
                                    ELSE "none"]]
        ELSE
            \* (the notification's historyId is only echoed in the response)
            /\ gw' = [gw EXCEPT ![p] =
                  [IdleGw EXCEPT !.pc = "listing", !.mode = "history",
                                 !.last = LAST_HISTORY_ID]]
            /\ UNCHANGED <<LAST_HISTORY_ID, config_sheet>>
    /\ MailFrame

\* gmail_client.py 272-273 and 309-312, app.py 1535-1545: request.execute()
\* returns a page, raises HttpError (caught in the client, which then returns
\* ([], start_history_id)), or raises something else (caught in the webhook).
ExecutePage(p) ==
    /\ gw[p].pc = "listing"
    /\ \E outcome \in {"page", "HttpError", "error"} :
        \/ /\ outcome = "page"
           /\ gw[p].page < MaxPages
           /\ gw' = [gw EXCEPT ![p].pc = "records", ![p].page = @ + 1,
                               ![p].recno = 0, ![p].queries = @ + 1]
        \/ /\ outcome = "HttpError"
           /\ gw' = [gw EXCEPT ![p] =
                    [HttpErrorResult(gw[p]) EXCEPT !.pc = "update", !.failed = TRUE,
                                                  !.queries = Max2(@, 1)]]
        \/ /\ outcome = "error"
           /\ gw' = [gw EXCEPT ![p].pc = "done", ![p].mode = "error",
                               ![p].queries = Max2(@, 1),
                               ![p].failed = TRUE]
    /\ UNCHANGED <<LAST_HISTORY_ID, config_sheet>>
    /\ MailFrame

\* What is kept of a record and of a page end for the properties: the
\* history ids, or the addition events.
Watch(g, rec, events) ==
    IF events THEN ObserveAdded(g, rec) ELSE Observe(g, rec.id)

WatchTop(g, historyId, events) ==
    IF events THEN g ELSE Observe(g, historyId)

\* gmail_client.py 276-288: the next history record of the page in hand.
PageRecord(p, events) ==
    /\ gw[p].pc = "records"
    /\ gw[p].recno < MaxRecs
    /\ \E rec \in HistoryRecords :
        gw' = [gw EXCEPT ![p] =
                 [Watch(ProcessRecord(gw[p], rec, {"INBOX"}), rec, events)
                    EXCEPT !.recno = @ + 1]]
    /\ UNCHANGED <<LAST_HISTORY_ID, config_sheet>>
    /\ MailFrame

\* gmail_client.py 290-314: the end of the page: its top-level historyId and
\* whether a nextPageToken follows; the last page ends the listing.
PageEnd(p, events) ==
    /\ gw[p].pc = "records"
    /\ \E historyId \in StrIds \cup {None}, more \in BOOLEAN :
        /\ more => gw[p].page < MaxPages
        /\ LET g == WatchTop(ProcessTopLevel(gw[p], historyId), historyId, events)
           IN gw' = [gw EXCEPT ![p] =
                 IF more THEN [g EXCEPT !.pc = "listing"]
                 ELSE [g EXCEPT !.pc = "update",
                                !.new_message_ids = SortedSeq(g.ids)]]
    /\ UNCHANGED <<LAST_HISTORY_ID, config_sheet>>
    /\ MailFrame

\* app.py 1554-1567: the checkpoint is replaced when the pass returned another.
UpdateCheckpoint(p) ==
    /\ gw[p].pc = "update"
    /\ \E ok \in BOOLEAN :
        IF ShouldUpdate(gw[p].latest, gw[p].last) THEN
            /\ LAST_HISTORY_ID' = gw[p].latest
            /\ IF cfg.repo
               THEN /\ config_sheet' = WriteConfigValue(config_sheet,
                                                        CheckpointToPersist(gw[p]), ok)
                    /\ gw' = [gw EXCEPT ![p].pc = "notify",
                                 ![p].persisted = IF ok THEN "ok" ELSE "failed"]
               ELSE /\ UNCHANGED config_sheet
                    /\ gw' = [gw EXCEPT ![p].pc = "notify"]
        ELSE
            /\ gw' = [gw EXCEPT ![p].pc = "notify"]
            /\ UNCHANGED <<LAST_HISTORY_ID, config_sheet>>
    /\ MailFrame

\* app.py 1587: target_sender_email.lower() raises when the setting is None;
\* nothing catches it, so the request ends there with a 500 and no card.
FilterCrashes(c, new_message_ids, metaFails) ==
    ~c.sender /\ Range(new_message_ids) \ metaFails # {}

\* app.py 1569-1671: metadata, sender filter and the new-email cards.
FilterAndNotify(p) ==
    /\ gw[p].pc = "notify"
    /\ \E metaFails \in SUBSET Range(gw[p].new_message_ids) :
        IF FilterCrashes(cfg, gw[p].new_message_ids, metaFails)
        THEN gw' = [gw EXCEPT ![p].pc = "done", ![p].raised = TRUE]
        ELSE
           \E sendFails \in SUBSET Range(MatchedMessages(gw[p].new_message_ids, metaFails)) :
            gw' = [gw EXCEPT ![p].pc = "done",
                     ![p].cards = CardsSent(cfg,
                                    MatchedMessages(gw[p].new_message_ids, metaFails),
                                    sendFails)]
    /\ UNCHANGED <<LAST_HISTORY_ID, config_sheet>>
    /\ MailFrame

\* The response is returned; the request's locals are gone.
GmailWebhookReturn(p) ==
    /\ gw[p].pc = "done"
    /\ gw' = [gw EXCEPT ![p] = IdleGw]
    /\ UNCHANGED <<LAST_HISTORY_ID, config_sheet>>
    /\ MailFrame

\* ---- a mailbox that answers history.list from its history
\* The mailbox's history: the record with history id h (2..MaxHist) added
\* message h - 1 to the inbox; the mailbox's current history id is MaxHist.
MailboxHistory ==
    [i \in 1..(MaxHist - 1) |->
        [id |-> StrId(i + 1),
         messagesAdded |-> <<[id |-> i, labelIds |-> {"INBOX"}]>>]]

MailboxHistoryId == StrId(MaxHist)

\* history.list(startHistoryId=start): the records after that history id.
HistoryAfter(start) ==
    SelectSeq(MailboxHistory, LAMBDA r : r.id.n > Num(start))

RECURSIVE ProcessRecords(_, _)
\* gmail_client.py 276-288: the record loop over what the mailbox returned.
ProcessRecords(g, recs) ==
    IF recs = <<>> THEN g
    ELSE ProcessRecords(Observe(ProcessRecord(g, Head(recs), {"INBOX"}), Head(recs).id),
                        Tail(recs))

\* gmail_client.py 260-314, app.py 1530-1545: list_new_message_ids_since
\* against that mailbox; the call returns, or a request of it raises.
ListHistory(p) ==
    /\ gw[p].pc = "listing"
    /\ \E outcome \in {"pages", "HttpError", "error"} :
        \/ /\ outcome = "pages"
           /\ LET g == Observe(ProcessTopLevel(
                                  ProcessRecords(gw[p], HistoryAfter(PyStr(gw[p].last))),
                                  MailboxHistoryId),
                               MailboxHistoryId)
              IN gw' = [gw EXCEPT ![p] =
                         [g EXCEPT !.pc = "update", !.page = 1, !.queries = 1,
                                   !.new_message_ids = SortedSeq(g.ids)]]
        \/ /\ outcome = "HttpError"
           /\ gw' = [gw EXCEPT ![p] =
                    [HttpErrorResult(gw[p]) EXCEPT !.pc = "update", !.failed = TRUE,
                                                  !.queries = 1]]
        \/ /\ outcome = "error"
           /\ gw' = [gw EXCEPT ![p].pc = "done", ![p].mode = "error",
                               ![p].queries = 1, ![p].failed = TRUE]
    /\ UNCHANGED <<LAST_HISTORY_ID, config_sheet>>
    /\ MailFrame

\* ------------------------------------------------------------ dispatcher
DispProcs == {"d1", "d2"}

IdleDp ==
    [pc |-> "idle", http |-> 0, due |-> <<>>, idx |-> 1, row_number |-> 0,
     dispatched |-> 0,
     \* what the trigger did, kept for the properties
     attempted |-> <<>>, sendFailed |-> {}, tried |-> {}, wrote |-> {}]

\* The outcomes of a call to a provider: with faults it may raise.
Outcomes(faulty) == IF faulty THEN {"ok", "raise"} ELSE {"ok"}

Min2(a, b) == IF a <= b THEN a ELSE b

\* What a dispatcher step leaves alone.
DispFrame ==
    UNCHANGED <<cfg, LAST_HISTORY_ID, config_sheet, gw, now, tg, manual_new_state,
                custom_datetime_state, nextId, chatFlow>>

\* app.py 1723 and 1766: on to the next due reminder, or to the response.
NextReminder(d) ==
    IF d.idx >= Len(d.due)
    THEN [d EXCEPT !.pc = "done", !.http = 200, !.idx = @ + 1]
    ELSE [d EXCEPT !.pc = "send", !.idx = @ + 1]

\* app.py 1738-1766: after a send that worked the status write follows; a send
\* that raised is logged and the loop goes on to the next reminder.
AfterSend_WritesAnyway(d, id, outcome) ==
    IF outcome = "ok"
    THEN [d EXCEPT !.pc = "lookup", !.dispatched = @ + 1]
    ELSE [d EXCEPT !.pc = "lookup", !.sendFailed = @ \cup {id}]

AfterSend_Stops(d, id, outcome) ==
    IF outcome = "ok"
    THEN [d EXCEPT !.pc = "lookup", !.dispatched = @ + 1]
    ELSE [d EXCEPT !.pc = "done", !.http = 200, !.sendFailed = @ \cup {id}]

AfterSend_NoWrite(d, id, outcome) ==
    IF outcome = "ok"
    THEN NextReminder([d EXCEPT !.dispatched = @ + 1])
    ELSE NextReminder([d EXCEPT !.sendFailed = @ \cup {id}])

AfterSend(d, id, outcome) ==
    IF outcome = "ok"
    THEN [d EXCEPT !.pc = "lookup", !.dispatched = @ + 1]
    ELSE NextReminder([d EXCEPT !.sendFailed = @ \cup {id}])

\* app.py 1687-1721: the due reminders are listed once, at the start.
DispatchStart(p, serial, faulty) ==
    /\ dp[p].pc = "idle"
    /\ serial => (p = "d1" /\ Quiet)
    /\ \E outcome \in Outcomes(faulty) :
        dp' = [dp EXCEPT ![p] =
                IF ~cfg.bot \/ ~cfg.repo \/ outcome = "raise"
                THEN [IdleDp EXCEPT !.pc = "done", !.http = 500]
                ELSE LET due == GetDueReminders(rows, now)
                     IN IF due = <<>>
                        THEN [IdleDp EXCEPT !.pc = "done", !.http = 200]
                        ELSE [IdleDp EXCEPT !.pc = "send", !.due = due]]
    /\ UNCHANGED <<rows, sentDue, nsent, liveCards>>
    /\ DispFrame

\* app.py 1738-1744 and 1760-1766: the card of the reminder in hand is sent.
DispatchSend(p, faulty) ==
    /\ dp[p].pc = "send"
    /\ LET r == dp[p].due[dp[p].idx]
           d == [dp[p] EXCEPT !.attempted = Append(@, r.reminder_id)]
       IN \E outcome \in Outcomes(faulty) :
            /\ dp' = [dp EXCEPT ![p] = AfterSend(d, r.reminder_id, outcome)]
            /\ IF outcome = "ok" THEN
                /\ sentDue' = [sentDue EXCEPT ![r.reminder_id] = r.due_at]
                /\ nsent' = [nsent EXCEPT ![r.reminder_id] = Min2(@ + 1, MaxCards)]
                /\ liveCards' = [liveCards EXCEPT ![r.reminder_id] = Min2(@ + 1, MaxCards)]
              ELSE
                /\ UNCHANGED <<sentDue, nsent, liveCards>>
    /\ UNCHANGED rows
    /\ DispFrame

\* app.py 1747-1758 with sheets_repo.py 255-257: update_reminder_status reads
\* the sheet to find the reminder's row.
DispatchLookup(p, faulty) ==
    /\ dp[p].pc = "lookup"
    /\ LET r == dp[p].due[dp[p].idx]
           d == [dp[p] EXCEPT !.tried = @ \cup {r.reminder_id}]
           row_number == FindRowNumber(GetAllReminders(rows), r.reminder_id)
       IN \E outcome \in Outcomes(faulty) :
            dp' = [dp EXCEPT ![p] =
                    IF outcome = "raise" \/ row_number = 0
                    THEN NextReminder(d)
                    ELSE [d EXCEPT !.pc = "write", !.row_number = row_number]]
    /\ UNCHANGED <<rows, sentDue, nsent, liveCards>>
    /\ DispFrame

\* sheets_repo.py 258-263: the status cell of that row is written.
DispatchWrite(p, faulty) ==
    /\ dp[p].pc = "write"
    /\ LET r == dp[p].due[dp[p].idx]
       IN \E outcome \in Outcomes(faulty) :
            IF outcome = "ok" THEN
                /\ rows' = UpdateCell(rows, dp[p].row_number, "status", "notified")
                /\ dp' = [dp EXCEPT ![p] =
                            NextReminder([dp[p] EXCEPT !.wrote = @ \cup {r.reminder_id}])]
            ELSE
                /\ dp' = [dp EXCEPT ![p] = NextReminder(dp[p])]
                /\ UNCHANGED rows
    /\ UNCHANGED <<sentDue, nsent, liveCards>>
    /\ DispFrame

\* app.py 1768-1774: the count is returned.
DispatchReturn(p) ==
    /\ dp[p].pc = "done"
    /\ dp' = [dp EXCEPT ![p] = IdleDp]
    /\ UNCHANGED <<rows, sentDue, nsent, liveCards>>
    /\ DispFrame

\* Time passes.
Tick ==
    /\ now < MaxNow
    /\ now' = now + 1
    /\ UNCHANGED <<cfg, LAST_HISTORY_ID, config_sheet, gw, rows, dp, tg,
                   manual_new_state, custom_datetime_state, sentDue, nsent,
                   liveCards, nextId, chatFlow>>

\* ------------------------------------------------------------ telegram_webhook
TgProcs == {"t1", "t2"}
Chats == {1, 2}

\* settings.telegram_user_id, when it is set.
TelegramUserId == 1

\* The description of an offset card; "" stands for no card.
NoCard == ""

IdleTg ==
    [pc |-> "idle", http |-> 0, chat |-> 0, branch |-> "", reminder_id |-> "",
     description |-> "", new_due |-> 0, row_number |-> 0, answer |-> "",
     \* the message text, and what the update found, kept for the properties
     text |-> "", before |-> None,
     \* the callback data, whether answer_callback_query was called, and
     \* whether the update's sender is the configured user
     data |-> <<>>, acked |-> FALSE, allowed |-> TRUE,
     \* the description of the offset card whose button was pressed
     card |-> NoCard]

\* What a telegram_webhook step leaves alone.
TgFrame ==
    UNCHANGED <<cfg, LAST_HISTORY_ID, config_sheet, gw, now, dp>>

\* The branches of a callback query.
PressBranches ==
    {"custom_cancel", "manual_offset", "email_action", "email_offset",
     "extend", "complete"}

\* The handler returns "", 200, having answered the callback query of a press
\* with `answer`, or said it to the chat of a message.
Respond(t, answer) ==
    [t EXCEPT !.pc = "done", !.http = 200, !.answer = answer,
              !.acked = t.branch \in PressBranches]

\* An exception leaves the handler: Flask answers 500. In the branches of a
\* press the calls that may raise come after the callback query was answered.
Crash(t) ==
    [t EXCEPT !.pc = "done", !.http = 500, !.answer = "exception",
              !.acked = t.branch \in PressBranches]

\* app.py 128-141, telegram_bot.py 69-88: without a bot the handler answers
\* 500; an update of another user than the configured one is dropped.
Prelude(c, allowed) ==
    IF ~c.bot THEN "not_configured"
    ELSE IF c.user /\ ~allowed THEN "ignored"
    ELSE "proceed"

\* app.py 145-154: no timedelta is -1.
NoDelta == 0 - 1

offset_key_to_delta_Day(key) ==
    CASE key = "1h" -> 24 [] key = "1d" -> 24 [] key = "3d" -> 72
      [] key = "1w" -> 168 [] OTHER -> NoDelta

offset_key_to_delta_Hour(key) ==
    CASE key = "1d" -> 24 [] key = "3d" -> 72 [] key = "1w" -> 168 [] OTHER -> 1

offset_key_to_delta(key) ==
    CASE key = "1h" -> 1 [] key = "1d" -> 24 [] key = "3d" -> 72
      [] key = "1w" -> 168 [] OTHER -> NoDelta

FixedKeys == {"1h", "1d", "3d", "1w"}

\* The offset keys a press may carry: the fixed ones, custom, and one that
\* no keyboard offers.
OffsetKeys == FixedKeys \cup {"custom", "2h"}

\* The texts a message may carry.
Texts == {"/start", "/new", "", " ", "milk", " milk", "01/01/2025 01:00"}

\* app.py 173: str.strip()
Strip(text) ==
    CASE text = " " -> "" [] text = " milk" -> "milk" [] OTHER -> text

\* app.py 157-166: strptime with "%d/%m/%Y %H:%M"; the clock's hour 0 is
\* 01/01/2025 00:00; no datetime is -1.
NoTime == 0 - 1

parse_custom_datetime_Any(date_text) == 1

parse_custom_datetime(date_text) ==
    IF date_text = "01/01/2025 01:00" THEN 1 ELSE NoTime

\* str.split(":", maxsplit) on a token given by its colon-separated segments:
\* the segments beyond maxsplit stay joined in the last part.
Joined == "*:*"

Split(data, maxsplit) ==
    IF Len(data) <= maxsplit + 1 THEN data
    ELSE SubSeq(data, 1, maxsplit) \o <<Joined>>

\* app.py 221, 323, 667, 920: settings.telegram_user_id or chat_id
ReminderChat(c, chat_id) == IF c.user THEN TelegramUserId ELSE chat_id

\* app.py 213-224 and 659-670: a manual reminder.
ManualReminder(id, description, chat, due_at) ==
    [reminder_id |-> id, source_type |-> "manual", gmail_message_id |-> 0,
     subject |-> <<>>, sender |-> <<>>, recipient |-> <<>>,
     description |-> description, telegram_chat_id |-> chat,
     due_at |-> due_at, status |-> "pending"]

\* The Subject header of each message: message 3 was sent without one.
SubjectHeader(m) == IF m = 3 THEN <<>> ELSE <<"S", ToString(m)>>

\* gmail_client.py 178-228: the headers of a message (a missing one is empty).
GetMessageMetadata(m) ==
    [subject |-> SubjectHeader(m), from |-> FromHeader(m),
     to |-> <<"m", "e">>, original_recipient |-> <<>>]

\* app.py 311-326 and 908-923: an email reminder.
EmailReminder(id, m, meta, chat, due_at) ==
    [reminder_id |-> id, source_type |-> "email", gmail_message_id |-> m,
     subject |-> meta.subject, sender |-> meta.from,
     recipient |-> IF meta.original_recipient # <<>>
                   THEN meta.original_recipient ELSE meta.to,
     description |-> "", telegram_chat_id |-> chat,
     due_at |-> due_at, status |-> "pending"]

\* The stage of a /new, text, fixed-offset sequence a chat's events form.
NoFlow == [stage |-> 0]

\* The chat's events seen as a flow, with the description of the oldest
\* "When should I remind you?" card sent since the chat last had no manual
\* state and still showing its keyboard, and the mode of the oldest custom
\* date prompt sent since the chat last had no custom state and still showing
\* its Cancel button. A specification that does not follow the cards or the
\* prompts starts with Untracked, which stays.
Untracked == "-"
Forget(shown, gone) == IF shown # Untracked /\ gone THEN NoCard ELSE shown
Flow(flow, first, prompt) == [first |-> first, prompt |-> prompt] @@ flow

\* app.py 592-642, 846-880, 1010-1044: the first Cancel prompt of a chat is
\* the one sent for the custom state just set, when the chat has none.
PromptShown(prompt, t, mode) ==
    IF prompt = NoCard /\ t.answer = "Send a custom date/time."
    THEN mode ELSE prompt

\* app.py 553-562: the prompt whose Cancel button was pressed loses its
\* keyboard.
PromptUsed(prompt, t) ==
    IF t.card # NoCard /\ t.card = prompt THEN NoCard ELSE prompt

\* app.py 499-506: the first offset card of a chat is the one sent with the
\* description just accepted, when the chat has none.
FirstCard(first, t, description) ==
    IF first = NoCard /\ t.answer = "When should I remind you?"
    THEN description ELSE first

\* app.py 686-712: the card whose button created the reminder loses its
\* keyboard.
CardUsed(first, t) ==
    IF t.branch = "manual_offset" /\ t.answer = "Reminder created." /\ t.card = first
    THEN NoCard ELSE first

\* dict.pop(chat_id, None) and dict[chat_id] = value
Pop(d, chat_id) == [d EXCEPT ![chat_id] = None]
Put(d, chat_id, value) == [d EXCEPT ![chat_id] = value]

\* An edit that removes a card's keyboard leaves one live card less.
CardClosed(cards, id, edited) ==
    IF edited /\ id \in DOMAIN cards /\ cards[id] > 0
    THEN [cards EXCEPT ![id] = @ - 1] ELSE cards

\* A chat's events so far, seen as a /new, text, fixed-offset sequence.
FlowAfterText(flow, raw, hadCustom) ==
    IF raw = "/new" THEN [stage |-> 1, clean |-> ~hadCustom]
    ELSE IF flow.stage = 1 /\ raw # ""
    THEN [stage |-> 2, text |-> raw, via |-> "text",
          clean |-> flow.clean /\ Strip(raw) \notin {"", "/start"}]
    ELSE NoFlow

FlowAfterPress(flow, key, t, sheet) ==
    IF flow.stage = 2 /\ key \in FixedKeys
    THEN [stage |-> 3, text |-> flow.text, via |-> flow.via, clean |-> flow.clean,
          key |-> key, t0 |-> t, before |-> sheet]
    ELSE NoFlow

\* The chat is back at the offset keyboard with its description, after a
\* cancelled custom date ("cancel") or a store write that failed ("retry").
FlowResumed(description, via) ==
    [stage |-> 2, text |-> description, via |-> via, clean |-> TRUE]

\* What an update found when it arrived: the chat's two states and the sheet
\* (followed for the updates that are handled one at a time).
Before(chat, manual, custom, sheet) ==
    IF chat = 0 THEN None
    ELSE [manual |-> manual[chat], custom |-> custom[chat], rows |-> sheet]

\* A reply is sent with bot.send_message, which re-raises (telegram_bot.py
\* 27-49); what follows the send in the handler is lost when it raises.
Say(t, text, send) == IF send = "ok" THEN Respond(t, text) ELSE Crash(t)

\* The handler's effect: the request, the two state tables and the sheet.
Effect(t, manual, custom, sheet, created) ==
    [t |-> t, manual |-> manual, custom |-> custom, rows |-> sheet,
     created |-> created]

\* app.py 184-235, 281-337, 389-396: a failure notice is sent and then the
\* chat's custom state is dropped.
NoticeThenPop(t, text, send, manual, custom, sheet) ==
    Effect(Say(t, text, send), manual,
           IF send = "ok" THEN Pop(custom, t.chat) ELSE custom, sheet, 0)

\* app.py 195-275: custom datetime for a manual reminder.
CustomManual(c, t, sc, parsed, id, manual, custom, sheet, send, store) ==
    IF ~c.repo
    THEN NoticeThenPop(t, "Storage not configured; could not save reminder.",
                       send, manual, custom, sheet)
    ELSE IF store = "raise"
    THEN NoticeThenPop(t, "Failed to save reminder.", send, manual, custom, sheet)
    ELSE Effect(Respond(t, "Reminder created"), manual, Pop(custom, t.chat),
                AppendRow(sheet, ReminderRow(
                    ManualReminder(id, sc.description,
                                   ReminderChat(c, sc.original_chat_id), parsed))),
                1)

\* app.py 277-384: custom datetime for an email reminder.
CustomEmail(c, t, sc, parsed, id, manual, custom, sheet, send, store, meta) ==
    IF ~c.repo \/ ~c.gmail
    THEN NoticeThenPop(t, "Storage or email access not configured; could not save reminder.",
                       send, manual, custom, sheet)
    ELSE IF meta = "raise"
    THEN NoticeThenPop(t, "Failed to read email metadata; reminder not created.",
                       send, manual, custom, sheet)
    ELSE IF store = "raise"
    THEN NoticeThenPop(t, "Failed to save email reminder.", send, manual, custom, sheet)
    ELSE Effect(Respond(t, "Reminder created"), manual, Pop(custom, t.chat),
                AppendRow(sheet, ReminderRow(
                    EmailReminder(id, sc.gmail_message_id,
                                  GetMessageMetadata(sc.gmail_message_id),
                                  ReminderChat(c, sc.original_chat_id), parsed))),
                1)

\* app.py 386-406: custom datetime for a snooze; the store update follows.
CustomSnooze(c, t, sc, parsed, manual, custom, sheet, send) ==
    IF ~c.repo
    THEN NoticeThenPop(t, "Storage not configured; could not snooze reminder.",
                       send, manual, custom, sheet)
    ELSE Effect([t EXCEPT !.pc = "lookup", !.branch = "custom_snooze",
                          !.reminder_id = sc.reminder_id, !.new_due = parsed],
                manual, custom, sheet, 0)

\* app.py 178-463: the chat is waiting for a custom datetime.
HandleCustomText(c, t, text, id, manual, custom, sheet, send, store, meta) ==
    LET sc == custom[t.chat]
        parsed == parse_custom_datetime(text)
    IN IF parsed = NoTime
       THEN Effect(Say(t, "Invalid format.", send), manual, custom, sheet, 0)
       ELSE IF sc.mode = "manual"
       THEN CustomManual(c, t, sc, parsed, id, manual, custom, sheet, send, store)
       ELSE IF sc.mode = "email"
       THEN CustomEmail(c, t, sc, parsed, id, manual, custom, sheet, send, store, meta)
       ELSE CustomSnooze(c, t, sc, parsed, manual, custom, sheet, send)

\* app.py 474: manual_new_state[chat_id] = {"stage": "awaiting_description"}
StartManual_IfIdle(manual, chat_id) ==
    IF manual[chat_id] = None
    THEN Put(manual, chat_id, [stage |-> "awaiting_description"]) ELSE manual

StartManual(manual, chat_id) ==
    Put(manual, chat_id, [stage |-> "awaiting_description"])

\* app.py 465-509: commands and the description of a manual reminder.
HandlePlainText(t, text, manual, custom, sheet, send) ==
    IF text = "/start"
    THEN Effect(Say(t, "Hello!", send), manual, custom, sheet, 0)
    ELSE IF text = "/new"
    THEN Effect(Say(t, "What should I remind you about?", send),
                StartManual(manual, t.chat), custom, sheet, 0)
    ELSE IF manual[t.chat] # None /\ manual[t.chat].stage = "awaiting_description"
    THEN IF text = ""
         THEN Effect(Say(t, "Please send a short description for the reminder.", send),
                     manual, custom, sheet, 0)
         ELSE Effect(Say(t, "When should I remind you?", send),
                     Put(manual, t.chat,
                         [stage |-> "awaiting_offset", description |-> text]),
                     custom, sheet, 0)
    ELSE Effect(Respond(t, ""), manual, custom, sheet, 0)

\* app.py 168-509: a message; the custom datetime state is looked at first.
HandleText(c, t, text, id, manual, custom, sheet, send, store, meta) ==
    IF custom[t.chat] # None
    THEN HandleCustomText(c, t, text, id, manual, custom, sheet, send, store, meta)
    ELSE HandlePlainText(t, text, manual, custom, sheet, send)

\* The conversation is followed until MaxRows reminders have been created.
IdsLeft == nextId <= MaxRows

\* A chat id; 0 stands for an update without one.
NoChat == 0

\* app.py 128-141, 175-176, 523-530: what ends the handler before any branch.
Early(t, pre, chat) ==
    IF pre = "not_configured"
    THEN [t EXCEPT !.pc = "done", !.http = 500, !.answer = "Telegram bot not configured"]
    ELSE IF pre = "ignored" THEN [t EXCEPT !.pc = "done", !.http = 200]
    ELSE IF chat = NoChat THEN Respond(t, "No chat id")
    ELSE t

Proceeds(pre, chat) == pre = "proceed" /\ chat # NoChat

\* One worker handles one request at a time when the deployment is serial.
MayStartTg(p, serial) == serial => (p = "t1" /\ Quiet)

\* Whether the update comes from the configured user; without one every
\* sender is allowed (telegram_bot.py 76-78).
SenderInputs(c) == IF c.user THEN BOOLEAN ELSE {TRUE}

\* A call that is not made has no outcome to choose.
CallOutcomes(faulty, made) == IF made THEN Outcomes(faulty) ELSE {"ok"}

\* app.py 227, 301, 329: the calls a message leads to when the chat waits for
\* a custom date.
StoreCalled(chat) ==
    chat \in Chats /\ custom_datetime_state[chat] # None

MetadataCalled(chat) ==
    /\ chat \in Chats /\ custom_datetime_state[chat] # None
    /\ custom_datetime_state[chat].mode = "email"

\* app.py 168-509: a message arrives.
TgMessage(p, serial, faulty, chats, texts) ==
    /\ tg[p].pc = "idle"
    /\ MayStartTg(p, serial)
    /\ \E chat \in chats \cup {NoChat}, raw \in texts, allowed \in SenderInputs(cfg),
          send \in Outcomes(faulty) :
       \E store \in CallOutcomes(faulty, StoreCalled(chat)),
          meta \in CallOutcomes(faulty, MetadataCalled(chat)) :
        LET pre == Prelude(cfg, allowed)
            t == [IdleTg EXCEPT !.chat = chat, !.allowed = allowed,
                                !.branch = "message",
                                !.text = Strip(raw),
                                !.before = Before(chat, manual_new_state,
                                                  custom_datetime_state, rows)]
        IN IF ~Proceeds(pre, chat)
           THEN /\ IdsLeft
                /\ tg' = [tg EXCEPT ![p] = Early(t, pre, chat)]
                /\ UNCHANGED <<manual_new_state, custom_datetime_state, rows,
                               nextId, chatFlow>>
           ELSE LET e == HandleText(cfg, t, Strip(raw), Uuid(nextId),
                                    manual_new_state, custom_datetime_state,
                                    rows, send, store, meta)
                IN /\ IdsLeft \/ StoreCalled(chat)
                   /\ (e.created > 0) => IdsLeft
                   /\ tg' = [tg EXCEPT ![p] = e.t]
                   /\ manual_new_state' = e.manual
                   /\ custom_datetime_state' = e.custom
                   /\ rows' = e.rows
                   /\ nextId' = nextId + e.created
                   /\ chatFlow' = [chatFlow EXCEPT ![chat] =
                         Flow(FlowAfterText(@, raw, custom_datetime_state[chat] # None),
                              FirstCard(@.first, e.t, Strip(raw)), @.prompt)]
    /\ UNCHANGED <<sentDue, nsent, liveCards>>
    /\ TgFrame

\* app.py 566-657: a manual_offset press, up to the store call.
OffsetPress(c, t, key, manual, custom, send) ==
    LET state == manual[t.chat]
    IN IF ~c.repo THEN Effect(Respond(t, "Storage not configured."), manual, custom, <<>>, 0)
       ELSE IF state = None \/ state.stage # "awaiting_offset"
       THEN Effect(Respond(t, "No pending reminder."), manual, custom, <<>>, 0)
       ELSE IF key = "custom"
       THEN Effect(Say(t, "Send a custom date/time.", send),
                   Pop(manual, t.chat),
                   Put(custom, t.chat,
                       [mode |-> "manual", description |-> state.description,
                        original_chat_id |-> t.chat]),
                   <<>>, 0)
       ELSE IF offset_key_to_delta(key) = NoDelta
       THEN Effect(Respond(t, "Unknown offset."), manual, custom, <<>>, 0)
       ELSE Effect([t EXCEPT !.pc = "create", !.description = state.description,
                             !.new_due = now + offset_key_to_delta(key)],
                   manual, custom, <<>>, 0)

\* The offset card pressed: the chat's oldest one, or another one (a later
\* card, or no card at all).
PressedCards(chat) ==
    IF chat \in Chats THEN {NoCard, chatFlow[chat].first} \ {Untracked} ELSE {NoCard}

TgManualOffset(p, serial, faulty, chats, keys) ==
    /\ tg[p].pc = "idle"
    /\ MayStartTg(p, serial)
    /\ IdsLeft
    /\ \E chat \in chats \cup {NoChat}, key \in keys, allowed \in SenderInputs(cfg),
          send \in Outcomes(faulty) :
       \E card \in PressedCards(chat) :
        LET pre == Prelude(cfg, allowed)
            t == [IdleTg EXCEPT !.chat = chat, !.allowed = allowed,
                                !.branch = "manual_offset", !.card = card,
                                !.data = <<"manual_offset", key>>,
                                !.before = Before(chat, manual_new_state,
                                                  custom_datetime_state, rows)]
        IN IF ~Proceeds(pre, chat)
           THEN /\ tg' = [tg EXCEPT ![p] = Early(t, pre, chat)]
                /\ UNCHANGED <<manual_new_state, custom_datetime_state, chatFlow>>
           ELSE LET e == OffsetPress(cfg, t, key, manual_new_state,
                                     custom_datetime_state, send)
                IN /\ (e.t.pc = "create") => IdsLeft
                   /\ tg' = [tg EXCEPT ![p] = e.t]
                   /\ manual_new_state' = e.manual
                   /\ custom_datetime_state' = e.custom
                   /\ chatFlow' = [chatFlow EXCEPT ![chat] =
                                     Flow(FlowAfterPress(@, key, now, rows), @.first,
                                          PromptShown(@.prompt, e.t, "manual"))]
    /\ UNCHANGED <<rows, nextId, sentDue, nsent, liveCards>>
    /\ TgFrame

\* app.py 674-682: when create_reminder raises the handler answers and
\* returns; the chat's manual state is as it was.
CreateFailed_Clears(manual, chat) == Pop(manual, chat)

CreateFailed(manual, chat) == manual

\* app.py 659-712: the reminder is appended; then the chat's state is dropped
\* and the keyboard message becomes the confirmation.
TgManualCreate(p, faulty) ==
    /\ tg[p].pc = "create"
    /\ IdsLeft
    /\ \E store \in Outcomes(faulty) :
        IF store = "raise" THEN
            /\ tg' = [tg EXCEPT ![p] = Respond(@, "Failed to save reminder.")]
            /\ manual_new_state' = CreateFailed(manual_new_state, tg[p].chat)
            /\ UNCHANGED <<rows, nextId>>
        ELSE
            /\ rows' = AppendRow(rows, ReminderRow(
                          ManualReminder(Uuid(nextId), tg[p].description,
                                         ReminderChat(cfg, tg[p].chat), tg[p].new_due)))
            /\ nextId' = nextId + 1
            /\ manual_new_state' = Pop(manual_new_state, tg[p].chat)
            /\ tg' = [tg EXCEPT ![p] = Respond(@, "Reminder created.")]
    /\ UNCHANGED <<custom_datetime_state, chatFlow, sentDue, nsent, liveCards>>
    /\ TgFrame

\* app.py 532-564: custom_cancel drops the chat's custom state; a manual one
\* gives the chat its awaiting_offset state back. The answer and the edit of
\* the prompt cannot raise (telegram_bot.py 108-127, app.py 553-562).
CancelCustom_RestoresNothing(t, manual, custom) ==
    Effect(Respond(t, "Custom date entry cancelled."), manual,
           Pop(custom, t.chat), <<>>, 0)

CancelCustom(t, manual, custom) ==
    LET sc == custom[t.chat]
    IN Effect(Respond(t, "Custom date entry cancelled."),
              IF sc # None /\ sc.mode = "manual"
              THEN Put(manual, t.chat,
                       [stage |-> "awaiting_offset", description |-> sc.description])
              ELSE manual,
              Pop(custom, t.chat), <<>>, 0)

\* The callback data that starts with "custom_cancel:", by segments: the one
\* of the cancel button, and one with a segment more.
CancelData == {<<"custom_cancel", "manual">>, <<"custom_cancel", "manual", "x">>}

\* The prompt whose Cancel button is pressed: the chat's oldest one, or
\* another one (a later prompt, or a hand-made callback).
PressedPrompts(chat) ==
    IF chat \in Chats THEN {NoCard, chatFlow[chat].prompt} \ {Untracked} ELSE {NoCard}

TgCustomCancel(p, serial, chats) ==
    /\ tg[p].pc = "idle"
    /\ MayStartTg(p, serial)
    /\ \E chat \in chats \cup {NoChat}, token \in CancelData, allowed \in SenderInputs(cfg) :
       \E prompt \in PressedPrompts(chat) :
        LET pre == Prelude(cfg, allowed)
            data == IF prompt = NoCard THEN token ELSE <<"custom_cancel", prompt>>
            t == [IdleTg EXCEPT !.chat = chat, !.allowed = allowed,
                                !.branch = "custom_cancel", !.card = prompt,
                                !.data = data,
                                !.before = Before(chat, manual_new_state,
                                                  custom_datetime_state, rows)]
        IN IF ~Proceeds(pre, chat)
           THEN /\ tg' = [tg EXCEPT ![p] = Early(t, pre, chat)]
                /\ UNCHANGED <<manual_new_state, custom_datetime_state, chatFlow>>
           ELSE LET e == CancelCustom(t, manual_new_state, custom_datetime_state)
                    sc == custom_datetime_state[chat]
                IN /\ tg' = [tg EXCEPT ![p] = e.t]
                   /\ manual_new_state' = e.manual
                   /\ custom_datetime_state' = e.custom
                   /\ chatFlow' = [chatFlow EXCEPT ![chat] =
                         Flow(IF sc # None /\ sc.mode = "manual"
                              THEN FlowResumed(sc.description, "cancel") ELSE NoFlow,
                              @.first, PromptUsed(@.prompt, t))]
    /\ UNCHANGED <<rows, nextId, sentDue, nsent, liveCards>>
    /\ TgFrame

\* The Gmail messages whose new-email card shows the offset keyboard.
CardMsgs == {1, 3}

\* The callback data of an email card's offset buttons, by segments, one
\* that lacks the offset key and one with a segment more.
EmailData(keys) ==
    {<<"email_offset", m, key>> : m \in CardMsgs, key \in keys}
    \cup {<<"email_offset", m>> : m \in CardMsgs}
    \cup {<<"email_offset", m, "custom", "x">> : m \in CardMsgs}

\* app.py 794-968: an email_offset press.
EmailPress(c, t, data, id, manual, custom, sheet, send, meta, store) ==
    LET parts == Split(data, 2)
    IN IF Len(parts) # 3
       THEN Effect(Respond(t, "Invalid email offset."), manual, custom, sheet, 0)
       ELSE IF ~c.repo
       THEN Effect(Respond(t, "Storage not configured."), manual, custom, sheet, 0)
       ELSE IF ~c.gmail
       THEN Effect(Respond(t, "Email access not configured."), manual, custom, sheet, 0)
       ELSE IF parts[3] = "custom"
       THEN Effect(Say(t, "Send a custom date/time.", send), manual,
                   Put(custom, t.chat,
                       [mode |-> "email", gmail_message_id |-> parts[2],
                        original_chat_id |-> t.chat]),
                   sheet, 0)
       ELSE IF offset_key_to_delta(parts[3]) = NoDelta
       THEN Effect(Respond(t, "Unknown offset."), manual, custom, sheet, 0)
       ELSE IF meta = "raise"
       THEN Effect(Respond(t, "Failed to read email metadata."), manual, custom, sheet, 0)
       ELSE IF store = "raise"
       THEN Effect(Respond(t, "Failed to save reminder."), manual, custom, sheet, 0)
       ELSE Effect(Respond(t, "Email reminder created."), manual, custom,
                   AppendRow(sheet, ReminderRow(
                       EmailReminder(id, parts[2], GetMessageMetadata(parts[2]),
                                     ReminderChat(c, t.chat),
                                     now + offset_key_to_delta(parts[3])))),
                   1)

TgEmailOffset(p, serial, faulty, chats, keys) ==
    /\ tg[p].pc = "idle"
    /\ MayStartTg(p, serial)
    /\ \E chat \in chats \cup {NoChat}, data \in EmailData(keys),
          allowed \in SenderInputs(cfg), send \in Outcomes(faulty),
          meta \in Outcomes(faulty), store \in Outcomes(faulty) :
        LET pre == Prelude(cfg, allowed)
            t == [IdleTg EXCEPT !.chat = chat, !.allowed = allowed,
                                !.branch = "email_offset",
                                !.data = data,
                                !.before = Before(chat, manual_new_state,
                                                  custom_datetime_state, rows)]
        IN IF ~Proceeds(pre, chat)
           THEN /\ tg' = [tg EXCEPT ![p] = Early(t, pre, chat)]
                /\ UNCHANGED <<custom_datetime_state, rows, nextId, chatFlow>>
           ELSE LET e == EmailPress(cfg, t, data, Uuid(nextId), manual_new_state,
                                    custom_datetime_state, rows, send, meta, store)
                IN /\ (e.created > 0) => IdsLeft
                   /\ tg' = [tg EXCEPT ![p] = e.t]
                   /\ custom_datetime_state' = e.custom
                   /\ rows' = e.rows
                   /\ nextId' = nextId + e.created
                   /\ chatFlow' = [chatFlow EXCEPT ![chat] = Flow(NoFlow, @.first,
                                          PromptShown(@.prompt, e.t, "email"))]
    /\ UNCHANGED <<manual_new_state, sentDue, nsent, liveCards>>
    /\ TgFrame

\* The callback data of a new-email card's buttons, by segments: set and
\* done, an action no button offers, one that lacks the message id and one
\* with a segment more.
ActionData ==
    {<<"email_action", a, m>> : a \in {"set", "done", "open"}, m \in CardMsgs}
    \cup {<<"email_action", "set">>}
    \cup {<<"email_action", "set", m, "x">> : m \in CardMsgs}

\* app.py 714-791: an email_action press; the card is edited after the
\* callback query was answered (telegram_bot.py 51-67 swallows a failure).
ActionPress(t, data) ==
    LET parts == Split(data, 2)
    IN IF Len(parts) # 3 THEN Respond(t, "Invalid email action.")
       ELSE IF parts[2] = "set" THEN Respond(t, "Choose when to be reminded.")
       ELSE IF parts[2] = "done" THEN Respond(t, "Marked as done. No reminder created.")
       ELSE Respond(t, "Unknown email action.")

TgEmailAction(p, serial, chats) ==
    /\ tg[p].pc = "idle"
    /\ MayStartTg(p, serial)
    /\ \E chat \in chats \cup {NoChat}, data \in ActionData, allowed \in SenderInputs(cfg) :
        LET pre == Prelude(cfg, allowed)
            t == [IdleTg EXCEPT !.chat = chat, !.allowed = allowed,
                                !.branch = "email_action", !.data = data,
                                !.before = Before(chat, manual_new_state,
                                                  custom_datetime_state, rows)]
        IN tg' = [tg EXCEPT ![p] =
                    IF ~Proceeds(pre, chat) THEN Early(t, pre, chat)
                    ELSE ActionPress(t, data)]
    /\ UNCHANGED <<manual_new_state, custom_datetime_state, rows, nextId,
                   sentDue, nsent, liveCards, chatFlow>>
    /\ TgFrame

\* The callback data of no branch: another action family, and no data.
OtherData == {<<"reminder_delete", "1">>, <<>>}

\* app.py 1172-1173: a callback query of no branch falls through.
TgOtherCallback(p, serial, chats) ==
    /\ tg[p].pc = "idle"
    /\ MayStartTg(p, serial)
    /\ \E chat \in chats \cup {NoChat}, data \in OtherData, allowed \in SenderInputs(cfg) :
        LET pre == Prelude(cfg, allowed)
            t == [IdleTg EXCEPT !.chat = chat, !.allowed = allowed,
                                !.branch = "other", !.data = data,
                                !.before = Before(chat, manual_new_state,
                                                  custom_datetime_state, rows)]
        IN tg' = [tg EXCEPT ![p] =
                    IF ~Proceeds(pre, chat) THEN Early(t, pre, chat)
                    ELSE [t EXCEPT !.pc = "done", !.http = 200]]
    /\ UNCHANGED <<manual_new_state, custom_datetime_state, rows, nextId,
                   sentDue, nsent, liveCards, chatFlow>>
    /\ TgFrame

\* The reminders whose control card still shows its keyboard.
Pressable == {id \in ReminderIds : liveCards[id] > 0}

\* The callback data of a reminder card's snooze buttons, by segments, and
\* one that lacks the offset key.
ExtendData(keys) ==
    {<<"reminder_extend", id, key>> : id \in Pressable, key \in keys}
    \cup {<<"reminder_extend", id>> : id \in Pressable}
    \cup {<<"reminder_extend", id, "custom", "x">> : id \in Pressable}

\* app.py 971-1059: a reminder_extend press, up to the store call.
ExtendPress_FromZero(c, t, data, custom, send) ==
    LET parts == Split(data, 2)
    IN IF Len(parts) # 3
       THEN Effect(Respond(t, "Invalid reminder extend action."), <<>>, custom, <<>>, 0)
       ELSE IF ~c.repo
       THEN Effect(Respond(t, "Storage not configured."), <<>>, custom, <<>>, 0)
       ELSE IF parts[3] = "custom"
       THEN Effect(Say(t, "Send a custom date/time.", send), <<>>,
                   Put(custom, t.chat,
                       [mode |-> "snooze", reminder_id |-> parts[2],
                        original_chat_id |-> t.chat]),
                   <<>>, 0)
       ELSE IF offset_key_to_delta(parts[3]) = NoDelta
       THEN Effect(Respond(t, "Unknown offset."), <<>>, custom, <<>>, 0)
       ELSE Effect([t EXCEPT !.pc = "lookup", !.reminder_id = parts[2],
                             !.new_due = offset_key_to_delta(parts[3])],
                   <<>>, custom, <<>>, 0)

ExtendPress(c, t, data, custom, send) ==
    LET parts == Split(data, 2)
    IN IF Len(parts) # 3
       THEN Effect(Respond(t, "Invalid reminder extend action."), <<>>, custom, <<>>, 0)
       ELSE IF ~c.repo
       THEN Effect(Respond(t, "Storage not configured."), <<>>, custom, <<>>, 0)
       ELSE IF parts[3] = "custom"
       THEN Effect(Say(t, "Send a custom date/time.", send), <<>>,
                   Put(custom, t.chat,
                       [mode |-> "snooze", reminder_id |-> parts[2],
                        original_chat_id |-> t.chat]),
                   <<>>, 0)
       ELSE IF offset_key_to_delta(parts[3]) = NoDelta
       THEN Effect(Respond(t, "Unknown offset."), <<>>, custom, <<>>, 0)
       ELSE Effect([t EXCEPT !.pc = "lookup", !.reminder_id = parts[2],
                             !.new_due = now + offset_key_to_delta(parts[3])],
                   <<>>, custom, <<>>, 0)

TgReminderExtend(p, serial, faulty, chats, keys) ==
    /\ tg[p].pc = "idle"
    /\ MayStartTg(p, serial)
    /\ \E chat \in chats \cup {NoChat}, data \in ExtendData(keys), allowed \in SenderInputs(cfg),
          send \in Outcomes(faulty) :
        LET pre == Prelude(cfg, allowed)
            t == [IdleTg EXCEPT !.chat = chat, !.allowed = allowed,
                                !.branch = "extend",
                                !.data = data,
                                !.before = IF serial
                                           THEN Before(chat, manual_new_state,
                                                       custom_datetime_state, rows)
                                           ELSE None]
        IN IF ~Proceeds(pre, chat)
           THEN /\ tg' = [tg EXCEPT ![p] = Early(t, pre, chat)]
                /\ UNCHANGED <<custom_datetime_state, chatFlow>>
           ELSE LET e == ExtendPress(cfg, t, data, custom_datetime_state, send)
                IN /\ tg' = [tg EXCEPT ![p] = e.t]
                   /\ custom_datetime_state' = e.custom
                   /\ chatFlow' = [chatFlow EXCEPT ![chat] = Flow(NoFlow, @.first,
                                          PromptShown(@.prompt, e.t, "snooze"))]
    /\ UNCHANGED <<manual_new_state, rows, nextId, sentDue, nsent, liveCards>>
    /\ TgFrame

\* The callback data of a reminder card's complete button, by segments, and
\* one with a segment more.
CompleteData ==
    {<<"reminder_complete", id>> : id \in Pressable}
    \cup {<<"reminder_complete", id, "x">> : id \in Pressable}

\* app.py 1108-1131: a reminder_complete press, up to the store call.
TgReminderComplete(p, serial, chats) ==
    /\ tg[p].pc = "idle"
    /\ MayStartTg(p, serial)
    /\ \E chat \in chats \cup {NoChat}, data \in CompleteData, allowed \in SenderInputs(cfg) :
        LET pre == Prelude(cfg, allowed)
            t == [IdleTg EXCEPT !.chat = chat, !.allowed = allowed,
                                !.branch = "complete",
                                !.data = data,
                                !.before = IF serial
                                           THEN Before(chat, manual_new_state,
                                                       custom_datetime_state, rows)
                                           ELSE None]
            parts == Split(data, 1)
        IN IF ~Proceeds(pre, chat)
           THEN /\ tg' = [tg EXCEPT ![p] = Early(t, pre, chat)]
                /\ UNCHANGED chatFlow
           ELSE /\ tg' = [tg EXCEPT ![p] =
                     IF Len(parts) # 2 THEN Respond(t, "Invalid complete action.")
                     ELSE IF ~cfg.repo THEN Respond(t, "Storage not configured.")
                     ELSE [t EXCEPT !.pc = "lookup", !.reminder_id = parts[2]]]
                /\ chatFlow' = [chatFlow EXCEPT ![chat] = Flow(NoFlow, @.first, @.prompt)]
    /\ UNCHANGED <<manual_new_state, custom_datetime_state, rows, nextId,
                   sentDue, nsent, liveCards>>
    /\ TgFrame

\* How a store call of the three branches ends when it does not succeed:
\* app.py 407-422, 1063-1080, 1134-1152.
StoreMiss(t, custom, notfound, send) ==
    LET text == IF notfound THEN "Reminder not found."
                ELSE IF t.branch = "complete" THEN "Failed to delete reminder."
                ELSE "Failed to snooze reminder."
    IN IF t.branch = "custom_snooze"
       THEN [t |-> Say(t, text, send),
             custom |-> IF send = "ok" THEN Pop(custom, t.chat) ELSE custom]
       ELSE [t |-> Respond(t, text), custom |-> custom]

\* How the three branches end once the store call has succeeded: the card is
\* edited (telegram_bot.py edit_message_text swallows a failure) and a custom
\* snooze drops the chat's state: app.py 424-459, 1082-1105, 1144-1170.
StoreDone_KeepsState(t, custom) ==
    [t |-> Respond(t, IF t.branch = "complete" THEN "Reminder completed."
                      ELSE "Reminder snoozed."),
     custom |-> custom]

StoreDone(t, custom) ==
    [t |-> Respond(t, IF t.branch = "complete" THEN "Reminder completed."
                      ELSE "Reminder snoozed."),
     custom |-> IF t.branch = "custom_snooze" THEN Pop(custom, t.chat) ELSE custom]

\* The reminder id in a row of the sheet, "" when the row is not there.
IdAtRow(sheet, row_number) ==
    IF row_number - 1 \in DOMAIN sheet THEN sheet[row_number - 1].reminder_id ELSE ""

\* sheets_repo.py 220-222 and 243-245: get_all_reminders, then the first row
\* with the id.
TgLookup(p, faulty) ==
    /\ tg[p].pc = "lookup"
    /\ \E outcome \in Outcomes(faulty), send \in Outcomes(faulty) :
        LET row_number == FindRowNumber(GetAllReminders(rows), tg[p].reminder_id)
            miss == StoreMiss(tg[p], custom_datetime_state,
                              outcome = "ok", send)
        IN IF outcome = "raise" \/ row_number = 0
           THEN /\ tg' = [tg EXCEPT ![p] = miss.t]
                /\ custom_datetime_state' = miss.custom
           ELSE /\ tg' = [tg EXCEPT ![p].row_number = row_number,
                              ![p].pc = IF tg[p].branch = "complete"
                                        THEN "delete" ELSE "write_due"]
                /\ UNCHANGED custom_datetime_state
    /\ UNCHANGED <<manual_new_state, rows, nextId, chatFlow, sentDue, nsent, liveCards>>
    /\ TgFrame

\* sheets_repo.py 224-228: the due_at cell of the row is written.
TgWriteDue(p, faulty) ==
    /\ tg[p].pc = "write_due"
    /\ \E outcome \in Outcomes(faulty), send \in Outcomes(faulty) :
        LET miss == StoreMiss(tg[p], custom_datetime_state, FALSE, send)
            id == IdAtRow(rows, tg[p].row_number)
        IN IF outcome = "raise"
           THEN /\ tg' = [tg EXCEPT ![p] = miss.t]
                /\ custom_datetime_state' = miss.custom
                /\ UNCHANGED <<rows, sentDue>>
           ELSE /\ rows' = UpdateCell(rows, tg[p].row_number, "due_at",
                                      IsoFormat(tg[p].new_due))
                /\ sentDue' = IF id \in ReminderIds
                              THEN [sentDue EXCEPT ![id] = NoTime] ELSE sentDue
                /\ tg' = [tg EXCEPT ![p].pc = "write_status"]
                /\ UNCHANGED custom_datetime_state
    /\ UNCHANGED <<manual_new_state, nextId, chatFlow, nsent, liveCards>>
    /\ TgFrame

\* sheets_repo.py 230-235: the status cell of the row is written, and the
\* handler finishes.
TgWriteStatus(p, faulty) ==
    /\ tg[p].pc = "write_status"
    /\ \E outcome \in Outcomes(faulty), send \in Outcomes(faulty),
          edited \in {o = "ok" : o \in Outcomes(faulty)} :
        LET miss == StoreMiss(tg[p], custom_datetime_state, FALSE, send)
            done == StoreDone(tg[p], custom_datetime_state)
            id == IdAtRow(rows, tg[p].row_number)
        IN IF outcome = "raise"
           THEN /\ tg' = [tg EXCEPT ![p] = miss.t]
                /\ custom_datetime_state' = miss.custom
                /\ UNCHANGED <<rows, nsent, liveCards>>
           ELSE /\ rows' = UpdateCell(rows, tg[p].row_number, "status", "pending")
                /\ nsent' = IF id \in ReminderIds
                            THEN [nsent EXCEPT ![id] = 0] ELSE nsent
                /\ liveCards' = CardClosed(liveCards, tg[p].reminder_id, edited)
                /\ tg' = [tg EXCEPT ![p] = done.t]
                /\ custom_datetime_state' = done.custom
    /\ UNCHANGED <<manual_new_state, nextId, chatFlow, sentDue>>
    /\ TgFrame

\* sheets_repo.py 246: the row is deleted, and the handler finishes.
TgDelete(p, faulty) ==
    /\ tg[p].pc = "delete"
    /\ \E outcome \in Outcomes(faulty), edited \in {o = "ok" : o \in Outcomes(faulty)} :
        IF outcome = "raise"
        THEN /\ tg' = [tg EXCEPT ![p] = Respond(@, "Failed to delete reminder.")]
             /\ UNCHANGED <<rows, liveCards>>
        ELSE /\ rows' = DeleteRows(rows, tg[p].row_number)
             /\ liveCards' = CardClosed(liveCards, tg[p].reminder_id, edited)
             /\ tg' = [tg EXCEPT ![p] = Respond(@, "Reminder completed.")]
    /\ UNCHANGED <<manual_new_state, custom_datetime_state, nextId, chatFlow,
                   sentDue, nsent>>
    /\ TgFrame

\* The response is returned; the request's locals are gone.
TgReturn(p) ==
    /\ tg[p].pc = "done"
    /\ tg' = [tg EXCEPT ![p] = IdleTg]
    /\ chatFlow' = [c \in Chats |->
                      IF c # tg[p].chat THEN chatFlow[c]
                      ELSE Flow(IF chatFlow[c].stage # 3 THEN chatFlow[c]
                                ELSE IF tg[p].branch = "manual_offset"
                                        /\ tg[p].answer = "Failed to save reminder."
                                THEN FlowResumed(tg[p].description, "retry")
                                ELSE NoFlow,
                                Forget(CardUsed(chatFlow[c].first, tg[p]),
                                       manual_new_state[c] = None),
                                Forget(chatFlow[c].prompt,
                                       custom_datetime_state[c] = None))]
    /\ UNCHANGED <<manual_new_state, custom_datetime_state, rows, nextId,
                   sentDue, nsent, liveCards>>
    /\ TgFrame


\* create_app runs again: what was only in memory is lost.
Restart ==
    /\ LAST_HISTORY_ID' = LoadLastHistoryId(cfg, config_sheet)
    /\ gw' = [p \in MailProcs |-> IdleGw]
    /\ dp' = [p \in DispProcs |-> IdleDp]
    /\ tg' = [p \in TgProcs |-> IdleTg]
    /\ manual_new_state' = [c \in Chats |-> None]
    /\ custom_datetime_state' = [c \in Chats |-> None]
    /\ chatFlow' = [c \in Chats |-> Flow(NoFlow, Forget(chatFlow[c].first, TRUE),
                                         Forget(chatFlow[c].prompt, TRUE))]
    /\ UNCHANGED <<cfg, config_sheet, now, rows, sentDue, nsent, liveCards, nextId>>

\* The state of a freshly started process, the sheet apart.
InitProcess ==
    /\ gw = [p \in MailProcs |-> IdleGw]
    /\ dp = [p \in DispProcs |-> IdleDp]
    /\ tg = [p \in TgProcs |-> IdleTg]
    /\ manual_new_state = [c \in Chats |-> None]
    /\ custom_datetime_state = [c \in Chats |-> None]
    /\ chatFlow = [c \in Chats |-> Flow(NoFlow, Untracked, Untracked)]
    /\ now = 0
    /\ sentDue = [id \in ReminderIds |-> NoTime]
    /\ nsent = [id \in ReminderIds |-> 0]
    /\ liveCards = [id \in ReminderIds |-> 0]

InitMail ==
    /\ cfg \in MailConfigs
    /\ config_sheet \in (IF cfg.repo THEN StrIds \cup {None} ELSE {None})
    /\ LAST_HISTORY_ID = LoadLastHistoryId(cfg, config_sheet)
    /\ InitProcess
    /\ rows = <<>>
    /\ nextId = 1

NextMail ==
    \/ \E p \in MailProcs : GmailWebhookStart(p, TRUE)
    \/ \E p \in MailProcs : ExecutePage(p)
    \/ \E p \in MailProcs : PageRecord(p, FALSE)
    \/ \E p \in MailProcs : PageEnd(p, FALSE)
    \/ \E p \in MailProcs : UpdateCheckpoint(p)
    \/ \E p \in MailProcs : FilterAndNotify(p)
    \/ \E p \in MailProcs : GmailWebhookReturn(p)
    \/ Restart

SpecMail == InitMail /\ [][NextMail]_vars

\* ---- the listing, with the addition events of its pages kept
InitList ==
    /\ InitMail
    /\ cfg = FullConfig
    /\ config_sheet = StrId(1)

NextList ==
    \/ \E p \in MailProcs : GmailWebhookStart(p, TRUE)
    \/ \E p \in MailProcs : ExecutePage(p)
    \/ \E p \in MailProcs : PageRecord(p, TRUE)
    \/ \E p \in MailProcs : PageEnd(p, TRUE)
    \/ \E p \in MailProcs : UpdateCheckpoint(p)
    \/ \E p \in MailProcs : FilterAndNotify(p)
    \/ \E p \in MailProcs : GmailWebhookReturn(p)

SpecList == InitList /\ [][NextList]_vars

\* ---- the same webhook in front of the mailbox, requests overlapping
NextInbox ==
    \/ \E p \in MailProcs : GmailWebhookStart(p, FALSE)
    \/ \E p \in MailProcs : ListHistory(p)
    \/ \E p \in MailProcs : UpdateCheckpoint(p)
    \/ \E p \in MailProcs : FilterAndNotify(p)
    \/ \E p \in MailProcs : GmailWebhookReturn(p)
    \/ Restart

SpecInbox == InitMail /\ [][NextInbox]_vars

\* ---- the dispatcher and the reminder cards, one request at a time
\* Sheets of pending manual reminders, created before the process started.
StoredSheets ==
    UNION {[1..n -> {0, 1}] : n \in 0..MaxRows}

SheetOf(dues) ==
    [i \in DOMAIN dues |->
        ReminderRow(ManualReminder(Uuid(i), "milk", TelegramUserId, dues[i]))]

StoreConfigs ==
    {FullConfig} \cup {[FullConfig EXCEPT ![f] = FALSE] : f \in {"bot", "repo", "user"}}

InitDispatch ==
    /\ cfg \in StoreConfigs
    /\ config_sheet = None
    /\ LAST_HISTORY_ID = None
    /\ InitProcess
    /\ \E dues \in StoredSheets :
        /\ rows = SheetOf(dues)
        /\ nextId = Len(dues) + 1

UserChats == {TelegramUserId}

\* The snooze keys pressed here: the one-hour button, and a key no keyboard
\* offers.
HourKeys == {"1h", "2h"}

NextDispatch ==
    \/ \E p \in DispProcs : DispatchStart(p, TRUE, TRUE)
    \/ \E p \in DispProcs : DispatchSend(p, TRUE)
    \/ \E p \in DispProcs : DispatchLookup(p, TRUE)
    \/ \E p \in DispProcs : DispatchWrite(p, TRUE)
    \/ \E p \in DispProcs : DispatchReturn(p)
    \/ \E p \in TgProcs : TgReminderExtend(p, TRUE, TRUE, UserChats, HourKeys)
    \/ \E p \in TgProcs : TgReminderComplete(p, TRUE, UserChats)
    \/ \E p \in TgProcs : TgLookup(p, TRUE)
    \/ \E p \in TgProcs : TgWriteDue(p, TRUE)
    \/ \E p \in TgProcs : TgWriteStatus(p, TRUE)
    \/ \E p \in TgProcs : TgDelete(p, TRUE)
    \/ \E p \in TgProcs : TgReturn(p)
    \/ Tick

SpecDispatch == InitDispatch /\ [][NextDispatch]_vars

\* ---- the same handlers, overlapping, every provider call succeeding
NextDispatchConc ==
    \/ \E p \in DispProcs : DispatchStart(p, FALSE, FALSE)
    \/ \E p \in DispProcs : DispatchSend(p, FALSE)
    \/ \E p \in DispProcs : DispatchLookup(p, FALSE)
    \/ \E p \in DispProcs : DispatchWrite(p, FALSE)
    \/ \E p \in DispProcs : DispatchReturn(p)
    \/ \E p \in TgProcs : TgReminderExtend(p, FALSE, FALSE, UserChats, HourKeys)
    \/ \E p \in TgProcs : TgReminderComplete(p, FALSE, UserChats)
    \/ \E p \in TgProcs : TgLookup(p, FALSE)
    \/ \E p \in TgProcs : TgWriteDue(p, FALSE)
    \/ \E p \in TgProcs : TgWriteStatus(p, FALSE)
    \/ \E p \in TgProcs : TgDelete(p, FALSE)
    \/ \E p \in TgProcs : TgReturn(p)
    \/ Tick

InitDispatchConc == InitDispatch /\ cfg = FullConfig

SpecDispatchConc == InitDispatchConc /\ [][NextDispatchConc]_vars

\* ---- the conversation handlers, one request at a time
InitChat ==
    /\ cfg \in StoreConfigs
    /\ config_sheet = None
    /\ LAST_HISTORY_ID = None
    /\ InitProcess
    /\ rows = <<>>
    /\ nextId = 1

\* A second chat, which runs the plain flow only.
OtherChats == Chats \ UserChats
OtherTexts == {"/new", "milk"}
OtherKeys == {"1h"}

NextChat ==
    \/ \E p \in TgProcs : TgMessage(p, TRUE, TRUE, UserChats, Texts)
    \/ \E p \in TgProcs : TgMessage(p, TRUE, TRUE, OtherChats, OtherTexts)
    \/ \E p \in TgProcs : TgManualOffset(p, TRUE, TRUE, UserChats, OffsetKeys)
    \/ \E p \in TgProcs : TgManualOffset(p, TRUE, TRUE, OtherChats, OtherKeys)
    \/ \E p \in TgProcs : TgManualCreate(p, TRUE)
    \/ \E p \in TgProcs : TgReturn(p)
    \/ Tick
    \/ Restart

SpecChat == InitChat /\ [][NextChat]_vars

\* ---- the custom date flows of the three modes, one request at a time
\* Everything configured, or one of bot, repo, gmail client, user id missing.
CustomConfigs ==
    {FullConfig} \cup {[FullConfig EXCEPT ![f] = FALSE] :
                         f \in {"bot", "repo", "gmail", "user"}}

\* The process starts with reminders stored earlier, whose control cards are
\* still in the chat with their keyboards.
InitCustom ==
    /\ cfg \in CustomConfigs
    /\ config_sheet = None
    /\ LAST_HISTORY_ID = None
    /\ gw = [p \in MailProcs |-> IdleGw]
    /\ dp = [p \in DispProcs |-> IdleDp]
    /\ tg = [p \in TgProcs |-> IdleTg]
    /\ manual_new_state = [c \in Chats |-> None]
    /\ custom_datetime_state = [c \in Chats |-> None]
    /\ chatFlow = [c \in Chats |-> Flow(NoFlow, Untracked, Untracked)]
    /\ now = 0
    /\ sentDue = [id \in ReminderIds |-> NoTime]
    /\ nsent = [id \in ReminderIds |-> 0]
    /\ \E dues \in StoredSheets, status \in {"pending", "notified"} :
        /\ rows = [i \in DOMAIN dues |-> [SheetOf(dues)[i] EXCEPT !.status = status]]
        /\ nextId = Len(dues) + 1
        /\ liveCards = [id \in ReminderIds |-> IF id \in IdsIn(SheetOf(dues)) THEN 1 ELSE 0]

\* The texts sent here: a command, a description, a date in the format, and
\* a text in the format that names no day of the calendar.
CustomTexts == {"/new", "milk", "01/01/2025 01:00", "31/02/2025 01:00"}
CustomKeys == {"1h", "custom"}

NextCustom ==
    \/ \E p \in TgProcs : TgMessage(p, TRUE, TRUE, UserChats, CustomTexts)
    \/ \E p \in TgProcs : TgManualOffset(p, TRUE, TRUE, UserChats, CustomKeys)
    \/ \E p \in TgProcs : TgManualCreate(p, TRUE)
    \/ \E p \in TgProcs : TgEmailOffset(p, TRUE, TRUE, UserChats, CustomKeys)
    \/ \E p \in TgProcs : TgReminderExtend(p, TRUE, TRUE, UserChats, {"custom"})
    \/ \E p \in TgProcs : TgCustomCancel(p, TRUE, UserChats)
    \/ \E p \in TgProcs : TgOtherCallback(p, TRUE, UserChats)
    \/ \E p \in TgProcs : TgEmailAction(p, TRUE, UserChats)
    \/ \E p \in TgProcs : TgLookup(p, TRUE)
    \/ \E p \in TgProcs : TgWriteDue(p, TRUE)
    \/ \E p \in TgProcs : TgWriteStatus(p, TRUE)
    \/ \E p \in TgProcs : TgReturn(p)

SpecCustom == InitCustom /\ [][NextCustom]_vars

\* ---- the conversation handlers, the offset cards of each chat followed
InitCards ==
    /\ cfg \in StoreConfigs
    /\ config_sheet = None
    /\ LAST_HISTORY_ID = None
    /\ gw = [p \in MailProcs |-> IdleGw]
    /\ dp = [p \in DispProcs |-> IdleDp]
    /\ tg = [p \in TgProcs |-> IdleTg]
    /\ manual_new_state = [c \in Chats |-> None]
    /\ custom_datetime_state = [c \in Chats |-> None]
    /\ chatFlow = [c \in Chats |-> Flow(NoFlow, NoCard, Untracked)]
    /\ now = 0
    /\ sentDue = [id \in ReminderIds |-> NoTime]
    /\ nsent = [id \in ReminderIds |-> 0]
    /\ liveCards = [id \in ReminderIds |-> 0]
    /\ rows = <<>>
    /\ nextId = 1

SpecCards == InitCards /\ [][NextChat]_vars

\* ---- the custom date flows, the Cancel prompts of each chat followed
InitPrompts ==
    /\ cfg \in CustomConfigs
    /\ config_sheet = None
    /\ LAST_HISTORY_ID = None
    /\ gw = [p \in MailProcs |-> IdleGw]
    /\ dp = [p \in DispProcs |-> IdleDp]
    /\ tg = [p \in TgProcs |-> IdleTg]
    /\ manual_new_state = [c \in Chats |-> None]
    /\ custom_datetime_state = [c \in Chats |-> None]
    /\ chatFlow = [c \in Chats |-> Flow(NoFlow, Untracked, NoCard)]
    /\ now = 0
    /\ sentDue = [id \in ReminderIds |-> NoTime]
    /\ nsent = [id \in ReminderIds |-> 0]
    /\ \E dues \in StoredSheets, status \in {"pending", "notified"} :
        /\ rows = [i \in DOMAIN dues |-> [SheetOf(dues)[i] EXCEPT !.status = status]]
        /\ nextId = Len(dues) + 1
        /\ liveCards = [id \in ReminderIds |-> IF id \in IdsIn(SheetOf(dues)) THEN 1 ELSE 0]

SpecPrompts == InitPrompts /\ [][NextCustom]_vars

\* ---- the store's mutating calls, one whole call at a time
\* sheets_repo.py 116-132
create_reminder(sheet, reminder) == AppendRow(sheet, ReminderRow(reminder))

\* sheets_repo.py 215-236
update_reminder_due_at(sheet, reminder_id, new_due_at) ==
    LET row_number == FindRowNumber(GetAllReminders(sheet), reminder_id)
    IN IF row_number = 0 THEN sheet
       ELSE UpdateCell(UpdateCell(sheet, row_number, "due_at", IsoFormat(new_due_at)),
                       row_number, "status", "pending")

\* sheets_repo.py 238-248
delete_reminder(sheet, reminder_id) ==
    LET row_number == FindRowNumber(GetAllReminders(sheet), reminder_id)
    IN IF row_number = 0 THEN sheet ELSE DeleteRows(sheet, row_number)

\* sheets_repo.py 250-264
update_reminder_status(sheet, reminder_id, new_status) ==
    LET row_number == FindRowNumber(GetAllReminders(sheet), reminder_id)
    IN IF row_number = 0 THEN sheet
       ELSE UpdateCell(sheet, row_number, "status", new_status)

\* The reminder ids the calls carry; the sheet is followed up to one row more
\* than MaxRows, so that a call can be applied again.
StoreIds == {Uuid(i) : i \in 1..(MaxRows + 1)}

\* The reminders the callers build: app.py 213-224, 311-326, 660-670, 908-923.
BuiltReminders ==
    {ManualReminder(id, "milk", TelegramUserId, due) :
        id \in StoreIds, due \in 0..MaxNow}
    \cup {EmailReminder(id, m, GetMessageMetadata(m), TelegramUserId, due) :
            id \in StoreIds, m \in CardMsgs, due \in 0..MaxNow}

\* The mutating calls of the callers, with their arguments.
StoreCalls ==
    {[op |-> "create", reminder |-> r] : r \in BuiltReminders}
    \cup {[op |-> "update_due_at", reminder_id |-> id, new_due_at |-> due] :
            id \in StoreIds, due \in 0..MaxNow}
    \cup {[op |-> "update_status", reminder_id |-> id, new_status |-> st] :
            id \in StoreIds, st \in {"pending", "notified"}}
    \cup {[op |-> "delete", reminder_id |-> id] : id \in StoreIds}

ApplyCall(sheet, call) ==
    CASE call.op = "create" -> create_reminder(sheet, call.reminder)
      [] call.op = "update_due_at" ->
            update_reminder_due_at(sheet, call.reminder_id, call.new_due_at)
      [] call.op = "update_status" ->
            update_reminder_status(sheet, call.reminder_id, call.new_status)
      [] call.op = "delete" -> delete_reminder(sheet, call.reminder_id)

StoreFrame ==
    UNCHANGED <<cfg, LAST_HISTORY_ID, config_sheet, gw, now, dp, tg,
                manual_new_state, custom_datetime_state, sentDue, nsent,
                liveCards, nextId, chatFlow>>

StoreCreate ==
    /\ Len(rows) <= MaxRows
    /\ \E r \in BuiltReminders : rows' = create_reminder(rows, r)
    /\ StoreFrame

StoreUpdateDueAt ==
    /\ \E id \in StoreIds, due \in 0..MaxNow :
        rows' = update_reminder_due_at(rows, id, due)
    /\ StoreFrame

StoreUpdateStatus ==
    /\ \E id \in StoreIds, st \in {"pending", "notified"} :
        rows' = update_reminder_status(rows, id, st)
    /\ StoreFrame

StoreDelete ==
    /\ \E id \in StoreIds : rows' = delete_reminder(rows, id)
    /\ StoreFrame

InitStore ==
    /\ cfg = FullConfig
    /\ config_sheet = None
    /\ LAST_HISTORY_ID = None
    /\ InitProcess
    /\ rows = <<>>
    /\ nextId = 1

NextStore ==
    \/ StoreCreate
    \/ StoreUpdateDueAt
    \/ StoreUpdateStatus
    \/ StoreDelete

SpecStore == InitStore /\ [][NextStore]_vars

\* ------------------------------------------------------------ properties
\* The offsets the fixed buttons stand for, in hours.
HoursOf(key) ==
    CASE key = "1h" -> 1 [] key = "1d" -> 24 [] key = "3d" -> 72 [] key = "1w" -> 168

\* The press that ended the flow f of chat c added one manual pending record
\* with the given description, due at the press time plus the offset, and
\* left the chat without conversation state.
FlowCreated(f, c, description) ==
    /\ Len(rows) = Len(f.before) + 1
    /\ SubSeq(rows, 1, Len(f.before)) = f.before
    /\ rows[Len(rows)].source_type = "manual"
    /\ rows[Len(rows)].description = description
    /\ rows[Len(rows)].due_at = IsoFormat(f.t0 + HoursOf(f.key))
    /\ rows[Len(rows)].status = "pending"
    /\ manual_new_state[c] = None
    /\ custom_datetime_state[c] = None

\* A fixed-offset press that followed /new and a non-empty text has been
\* handled, and the store did not refuse the write.
FlowPressHandled(p) ==
    /\ tg[p].pc = "done" /\ tg[p].branch = "manual_offset"
    /\ tg[p].chat \in Chats
    /\ chatFlow[tg[p].chat].stage = 3
    /\ tg[p].answer \notin {"Failed to save reminder.", "Storage not configured."}

\* C1 as stated: every /new, non-empty text, fixed-offset sequence creates
\* the reminder and clears the chat's state.
C1_FlowCreatesReminder ==
    \A p \in TgProcs :
        FlowPressHandled(p) =>
            FlowCreated(chatFlow[tg[p].chat], tg[p].chat, chatFlow[tg[p].chat].text)

\* C1: when the chat was not waiting for a custom date at /new and the text
\* is neither blank nor a command, the sequence creates exactly one manual
\* pending reminder, described by the trimmed text and due at press time plus
\* offset, and clears the chat's state.
C1_CleanFlowCreatesReminder ==
    \A p \in TgProcs :
        (FlowPressHandled(p) /\ chatFlow[tg[p].chat].clean)
            => FlowCreated(chatFlow[tg[p].chat], tg[p].chat,
                           Strip(chatFlow[tg[p].chat].text))

\* Such a sequence has ended with the reminder created.
C1_Witness ==
    \E p \in TgProcs :
        /\ FlowPressHandled(p) /\ chatFlow[tg[p].chat].clean
        /\ tg[p].answer = "Reminder created."
        /\ rows # <<>>

\* The stored status and due_at of a reminder id ("" and -1 when it is gone).
StatusOf(sheet, id) ==
    IF id \in IdsIn(sheet) THEN RowOf(sheet, id).status ELSE ""

DueOf(sheet, id) ==
    IF id \in IdsIn(sheet) /\ RowOf(sheet, id).due_at # Blank
    THEN FromIsoFormat(RowOf(sheet, id).due_at) ELSE NoTime

DueIds(sheet, t) ==
    {GetDueReminders(sheet, t)[i].reminder_id : i \in DOMAIN GetDueReminders(sheet, t)}

C3_AtMostOneNotification ==
    \A id \in ReminderIds : nsent[id] <= 1

\* No trigger and no press is between its first and its last step.
NothingInFlight ==
    /\ \A p \in DispProcs : dp[p].pc \in {"idle", "done"}
    /\ \A p \in TgProcs : tg[p].pc \in {"idle", "done"}

\* C4: once the requests in flight have finished, a stored reminder is
\* notified only if a card for its current due_at was sent after that due_at
\* was written.
C4_NotifiedOnlyIfSent ==
    NothingInFlight =>
        \A id \in IdsIn(rows) :
            StatusOf(rows, id) = "notified" => sentDue[id] = DueOf(rows, id)

\* C5: a reminder whose send failed in a trigger has had no status write
\* attempted, is still stored pending, and is in the due query's result.
C5_SendFailureKeepsPending ==
    \A p \in DispProcs :
        \A id \in dp[p].sendFailed :
            /\ id \notin dp[p].tried
            /\ StatusOf(rows, id) = "pending"
            /\ id \in DueIds(rows, now)

\* A trigger finished after a send of it failed.
C5_Witness ==
    \E p \in DispProcs :
        /\ dp[p].pc = "done" /\ dp[p].http = 200
        /\ dp[p].sendFailed # {} /\ dp[p].dispatched = 0

Finished(g) == g.pc \in {"notify", "done"}

\* C6: a pass whose change-log query failed on some page leaves the in-memory
\* checkpoint at the value it had before the signal, returns no message ids
\* and sends no new-email card.
C6_FailedPassKeepsCheckpoint ==
    \A p \in MailProcs :
        gw[p].failed =>
            /\ Num(LAST_HISTORY_ID) = Num(gw[p].last)
            /\ gw[p].new_message_ids = <<>>
            /\ gw[p].cards = {}

\* A pass failed on its second page, after ids were collected on the first.
C6_Witness ==
    \E p \in MailProcs :
        /\ gw[p].pc = "done" /\ gw[p].failed
        /\ gw[p].page = 1 /\ gw[p].ids # {}

\* C7: once set, the checkpoint never becomes smaller, in memory and in the
\* persisted config value.
C7_CheckpointMonotone ==
    [][/\ (LAST_HISTORY_ID # None /\ LAST_HISTORY_ID' # None)
            => Num(LAST_HISTORY_ID') >= Num(LAST_HISTORY_ID)
       /\ (config_sheet # None /\ config_sheet' # None)
            => Num(config_sheet') >= Num(config_sheet)]_vars

AddedAt(m) ==
    (CHOOSE r \in Range(MailboxHistory) :
        \E i \in DOMAIN r.messagesAdded : r.messagesAdded[i].id = m).id.n

\* The messages of a finished pass that come from the target sender and got
\* no card although bot, user and sender are configured: their metadata fetch
\* or their send failed.
LeftBehind(g) ==
    IF g.pc = "done" /\ g.mode = "history" /\ cfg.bot /\ cfg.user /\ cfg.sender
    THEN {m \in Range(g.new_message_ids) : SenderMatches(m) /\ m \notin g.cards}
    ELSE {}

\* C11: when a pass ends with a message whose metadata fetch or send failed
\* (and no overlapping pass has sent its card), the checkpoint is still
\* before the history id that added the message, so a later pass lists it
\* again.
C11_FailedMessageNotPassed ==
    \A p \in MailProcs :
        \A m \in LeftBehind(gw[p]) :
            (\A q \in MailProcs : m \notin gw[q].cards)
                => Num(LAST_HISTORY_ID) < AddedAt(m)

\* C12: no two passes send a new-email card for the same message.
C12_CardAtMostOnce ==
    \A p, q \in MailProcs :
        p # q => gw[p].cards \cap gw[q].cards = {}

\* The listing of a pass has returned without a failed request.
Listed(g) ==
    g.pc \in {"update", "notify", "done"} /\ g.mode = "history" /\ ~g.failed

\* C13: the ids a successful listing returns are in strictly increasing order
\* (sorted, none twice) and are exactly the ids of the messages that some
\* addition event of some page showed with the INBOX label; a message only
\* seen without that label is not among them.
C13_SortedTrackedIds ==
    \A p \in MailProcs :
        Listed(gw[p]) =>
            LET ids == gw[p].new_message_ids
            IN /\ \A i, j \in DOMAIN ids : i < j => ids[i] < ids[j]
               /\ Range(ids) = gw[p].obsTracked
               /\ Range(ids) \cap (gw[p].obsUntracked \ gw[p].obsTracked) = {}

\* A two-page listing whose two records both added the same inbox message
\* returned it once.
C13_Witness ==
    \E p \in MailProcs :
        /\ Listed(gw[p]) /\ gw[p].pc = "done" /\ gw[p].page = 2
        /\ gw[p].obsAdds = 2 /\ Len(gw[p].new_message_ids) = 1

\* Two characters that are the same letter, whatever their case.
SameLetter(a, b) ==
    a = b \/ {a, b} \in {{"a", "A"}, {"b", "B"}, {"c", "C"}}

\* The configured sender string occurs in the message's From header, letter
\* case apart.
HeaderNamesSender(m) ==
    LET h == FromHeader(m)
        t == target_sender_email
    IN \E k \in 0..(Len(h) - Len(t)) :
          \A i \in 1..Len(t) : SameLetter(h[k + i], t[i])

\* C14: a pass sends a new-email card only for a message it listed whose From
\* header contains the configured sender string, compared without regard to
\* case; a listed message from another sender gets no card.
C14_CardOnlyForSender ==
    \A p \in MailProcs :
        /\ \A m \in gw[p].cards :
              m \in Range(gw[p].new_message_ids) /\ cfg.sender /\ HeaderNamesSender(m)
        /\ \A m \in Range(gw[p].new_message_ids) :
              ~HeaderNamesSender(m) => m \notin gw[p].cards

\* A pass listed a message of the sender (header in capitals) and one of
\* another sender, and sent a card for the first only.
C14_Witness ==
    \E p \in MailProcs :
        /\ gw[p].pc = "done" /\ gw[p].new_message_ids = <<1, 2>>
        /\ gw[p].cards = {1}
        /\ HeaderNamesSender(1) /\ ~HeaderNamesSender(2)
        /\ FromHeader(1) # Lower(FromHeader(1))

\* C18: when the store write of a fixed-offset press fails, the sheet is as
\* the press found it and the chat is still waiting for an offset with the
\* same description; and the press that follows such a failure, when its
\* write succeeds, creates the reminder with that description.
C18_FailedWriteKeepsOffsetState ==
    \A p \in TgProcs :
        /\ (tg[p].pc = "done" /\ tg[p].branch = "manual_offset"
                /\ tg[p].answer = "Failed to save reminder.")
            => /\ rows = tg[p].before.rows
               /\ manual_new_state[tg[p].chat] = tg[p].before.manual
               /\ manual_new_state[tg[p].chat] =
                     [stage |-> "awaiting_offset", description |-> tg[p].description]
        /\ (FlowPressHandled(p) /\ chatFlow[tg[p].chat].via = "retry")
            => FlowCreated(chatFlow[tg[p].chat], tg[p].chat,
                           chatFlow[tg[p].chat].text)

\* A press whose write failed was followed by one that created the reminder.
C18_Witness ==
    \E p \in TgProcs :
        /\ FlowPressHandled(p) /\ chatFlow[tg[p].chat].via = "retry"
        /\ tg[p].answer = "Reminder created."
        /\ Len(rows) = Len(tg[p].before.rows) + 1

\* C15: a chat never holds a manual-reminder state and a custom-datetime state
\* together.
C15_OneStatePerChat ==
    \A c \in Chats :
        ~(manual_new_state[c] # None /\ custom_datetime_state[c] # None)

\* A /new message of a chat went past the user check and reached the message
\* handler.
NewHandled(p) ==
    /\ tg[p].pc = "done" /\ tg[p].branch = "message" /\ tg[p].text = "/new"
    /\ tg[p].chat \in Chats
    /\ tg[p].answer \notin {"", "Telegram bot not configured"}

AwaitingDescription(c) ==
    /\ manual_new_state[c] = [stage |-> "awaiting_description"]
    /\ custom_datetime_state[c] = None

\* C16 as stated: after /new the chat is in awaitingDescription and holds no
\* other state, whatever state it was in.
C16_NewOverwritesAnyState ==
    \A p \in TgProcs : NewHandled(p) => AwaitingDescription(tg[p].chat)

\* C16: /new from a chat without a custom-datetime state leaves the chat in
\* awaitingDescription with no other state, whatever its manual state was;
\* from a chat waiting for a custom date/time it changes neither state.
C16_NewOverwritesManualState ==
    \A p \in TgProcs :
        NewHandled(p) =>
            IF tg[p].before.custom = None
            THEN AwaitingDescription(tg[p].chat)
            ELSE /\ custom_datetime_state[tg[p].chat] = tg[p].before.custom
                 /\ manual_new_state[tg[p].chat] = tg[p].before.manual

C16_Witness ==
    \E p \in TgProcs :
        /\ NewHandled(p)
        /\ tg[p].before.custom = None
        /\ tg[p].before.manual # None
        /\ tg[p].before.manual.stage = "awaiting_offset"
        /\ AwaitingDescription(tg[p].chat)

\* A custom_cancel press of a chat went past the user check.
CancelHandled(p) ==
    /\ tg[p].pc = "done" /\ tg[p].branch = "custom_cancel"
    /\ tg[p].chat \in Chats
    /\ tg[p].answer = "Custom date entry cancelled."

\* The press appended one manual reminder with the flow's description.
PressCreated(f, c) ==
    /\ Len(rows) = Len(f.before) + 1
    /\ SubSeq(rows, 1, Len(f.before)) = f.before
    /\ rows[Len(rows)].source_type = "manual"
    /\ rows[Len(rows)].description = f.text
    /\ rows[Len(rows)].due_at = IsoFormat(f.t0 + HoursOf(f.key))
    /\ rows[Len(rows)].status = "pending"
    /\ manual_new_state[c] = None

\* C17: custom_cancel leaves the chat without a custom-datetime state; from
\* mode manual it puts the chat back in awaitingOffset with the same
\* description, and a fixed-offset press that follows creates the reminder
\* with that description; from mode email or snooze it restores nothing.
C17_CancelRestoresOffsetState ==
    \A p \in TgProcs :
        /\ CancelHandled(p) =>
              LET c == tg[p].chat
                  was == tg[p].before.custom
              IN /\ custom_datetime_state[c] = None
                 /\ IF was # None /\ was.mode = "manual"
                    THEN manual_new_state[c] =
                           [stage |-> "awaiting_offset", description |-> was.description]
                    ELSE manual_new_state[c] = tg[p].before.manual
        /\ (FlowPressHandled(p) /\ chatFlow[tg[p].chat].via = "cancel") =>
              PressCreated(chatFlow[tg[p].chat], tg[p].chat)

C17_Witness ==
    \E p \in TgProcs :
        /\ FlowPressHandled(p)
        /\ chatFlow[tg[p].chat].via = "cancel"
        /\ tg[p].answer = "Reminder created."
        /\ PressCreated(chatFlow[tg[p].chat], tg[p].chat)
        /\ rows[Len(rows)].description = "milk"

C17_WitnessOtherModes ==
    \E p \in TgProcs :
        /\ CancelHandled(p)
        /\ tg[p].before.custom # None
        /\ tg[p].before.custom.mode = "snooze"
        /\ custom_datetime_state[tg[p].chat] = None
        /\ manual_new_state[tg[p].chat] = None

\* The text the properties take for a date and time in the accepted format.
IsDateText(text) == text = "01/01/2025 01:00"

\* The notices of a store or lookup step that failed after the date parsed; an
\* exception after the parse comes from the send of one of them.
CustomFailureNotices ==
    {"Storage not configured; could not save reminder.",
     "Failed to save reminder.",
     "Storage or email access not configured; could not save reminder.",
     "Failed to read email metadata; reminder not created.",
     "Failed to save email reminder.",
     "Storage not configured; could not snooze reminder.",
     "Failed to snooze reminder.",
     "Reminder not found.",
     "exception"}

\* A date text of a chat that was waiting for one has been handled, and the
\* store or lookup step of the mode failed.
CustomFailed(p) ==
    /\ tg[p].pc = "done" /\ tg[p].branch \in {"message", "custom_snooze"}
    /\ tg[p].chat \in Chats
    /\ tg[p].before.custom # None
    /\ IsDateText(tg[p].text)
    /\ tg[p].answer \in CustomFailureNotices

\* C19: after a parsed date, a failed store or lookup step leaves the chat
\* without a custom-datetime state and the store as the message found it.
C19_FailureClearsState ==
    \A p \in TgProcs :
        CustomFailed(p) =>
            /\ custom_datetime_state[tg[p].chat] = None
            /\ rows = tg[p].before.rows

\* A text that is no date and time was sent by a chat that was waiting for
\* one, and the handler has finished.
NonDateHandled(p) ==
    /\ tg[p].pc = "done" /\ tg[p].branch = "message"
    /\ tg[p].chat \in Chats
    /\ tg[p].before.custom # None
    /\ ~IsDateText(tg[p].text)

\* C20: a text that does not parse as a date and time leaves the chat in the
\* awaitingCustomDatetime state it was in, mode and payload included, and
\* writes nothing to the store.
C20_ParseFailureKeepsState ==
    \A p \in TgProcs :
        NonDateHandled(p) =>
            /\ custom_datetime_state[tg[p].chat] = tg[p].before.custom
            /\ rows = tg[p].before.rows

C20_Witness ==
    \E p \in TgProcs :
        /\ NonDateHandled(p)
        /\ tg[p].text = "31/02/2025 01:00"
        /\ tg[p].answer = "Invalid format."
        /\ tg[p].before.custom.mode = "snooze"
        /\ custom_datetime_state[tg[p].chat] = tg[p].before.custom
        /\ Len(rows) = 1

\* A date text of a chat that was waiting for one has been handled, and the
\* store step of the mode succeeded.
CustomSucceeded(p) ==
    /\ tg[p].pc = "done" /\ tg[p].branch \in {"message", "custom_snooze"}
    /\ tg[p].chat \in Chats
    /\ tg[p].before.custom # None
    /\ IsDateText(tg[p].text)
    /\ tg[p].answer \in {"Reminder created", "Reminder snoozed."}

\* The sheet is old with one pending record added, due at 01/01/2025 01:00.
OneAdded(old) ==
    /\ Len(rows) = Len(old) + 1
    /\ SubSeq(rows, 1, Len(old)) = old
    /\ rows[Len(rows)].due_at = IsoFormat(1)
    /\ rows[Len(rows)].status = "pending"
    /\ rows[Len(rows)].reminder_id \notin IdsIn(old)

\* The sheet is old with the reminder id due at 01/01/2025 01:00 and pending.
OneSnoozed(old, id) ==
    /\ Len(rows) = Len(old)
    /\ id \in IdsIn(old)
    /\ \A i \in DOMAIN old :
          rows[i] = IF old[i].reminder_id = id
                    THEN [old[i] EXCEPT !.due_at = IsoFormat(1), !.status = "pending"]
                    ELSE old[i]

C21_WitnessCreated ==
    \E p \in TgProcs :
        /\ CustomSucceeded(p)
        /\ tg[p].before.custom.mode = "email"
        /\ Len(rows) = 1 /\ rows[1].gmail_message_id = 1

\* A reminder_complete press of a chat reached the store.
CompleteHandled(p) ==
    /\ tg[p].pc = "done" /\ tg[p].branch = "complete"
    /\ tg[p].chat \in Chats
    /\ tg[p].reminder_id # ""

\* The sheet without the records of a reminder id.
Without(sheet, id) == SelectSeq(sheet, LAMBDA r : r.reminder_id # id)

C22_WitnessNotFound ==
    \E p \in TgProcs :
        /\ CompleteHandled(p)
        /\ tg[p].answer = "Reminder not found."
        /\ tg[p].reminder_id \notin IdsIn(rows)
        /\ liveCards[tg[p].reminder_id] > 0

\* A fixed reminder_extend press of a chat has snoozed its reminder.
ExtendDone(p) ==
    /\ tg[p].pc = "done" /\ tg[p].branch = "extend"
    /\ tg[p].chat \in Chats
    /\ tg[p].answer = "Reminder snoozed."

\* The sheet is old with the reminder id pending and due at the given time.
SnoozedTo(old, id, due) ==
    /\ Len(rows) = Len(old)
    /\ id \in IdsIn(old)
    /\ \A i \in DOMAIN old :
          rows[i] = IF old[i].reminder_id = id
                    THEN [old[i] EXCEPT !.due_at = IsoFormat(due), !.status = "pending"]
                    ELSE old[i]

\* A trigger has just listed the due reminders.
JustListed(d) == d.pc = "send" /\ d.idx = 1 /\ d.attempted = <<>>

C23_WitnessListedAgain ==
    \E p \in DispProcs :
        /\ JustListed(dp[p])
        /\ now = 1
        /\ dp[p].due[1].due_at = 1
        /\ liveCards[dp[p].due[1].reminder_id] > 0
        /\ nsent[dp[p].due[1].reminder_id] = 0
        /\ sentDue[dp[p].due[1].reminder_id] = NoTime

\* A button press with a chat id, from a sender the user check lets through,
\* has been handled by a configured bot.
PressHandled(p) ==
    /\ tg[p].pc = "done"
    /\ tg[p].branch \in PressBranches \cup {"other"}
    /\ tg[p].chat \in Chats
    /\ cfg.bot /\ tg[p].allowed

\* C24: every button press that carries a chat id is acknowledged
\* (answer_callback_query is called), whatever its token and the outcome.
C24_EveryPressAcknowledged ==
    \A p \in TgProcs : PressHandled(p) => tg[p].acked

\* The number of colon-delimited segments of the tokens of a family.
Arity(branch) ==
    CASE branch \in {"custom_cancel", "manual_offset", "complete"} -> 2
      [] branch \in {"email_action", "email_offset", "extend"} -> 3

InvalidAnswers ==
    {"Invalid email action.", "Invalid email offset.",
     "Invalid reminder extend action.", "Invalid complete action."}

\* A press whose token has too few or too many segments for its family has
\* been handled.
MalformedHandled(p) ==
    /\ tg[p].pc = "done" /\ tg[p].branch \in PressBranches
    /\ tg[p].chat \in Chats
    /\ cfg.bot /\ tg[p].allowed
    /\ Len(tg[p].data) # Arity(tg[p].branch)

\* C25: a token whose number of segments does not match the arity of its
\* family changes neither the store nor a conversation state and is answered
\* as invalid.
C25_WrongArityRejected ==
    \A p \in TgProcs :
        MalformedHandled(p) =>
            /\ rows = tg[p].before.rows
            /\ manual_new_state[tg[p].chat] = tg[p].before.manual
            /\ custom_datetime_state[tg[p].chat] = tg[p].before.custom
            /\ tg[p].answer \in InvalidAnswers

\* C26: every Telegram update and every Gmail push notification is answered
\* with HTTP 200, whatever happened inside the handler.
C26_AlwaysAccepted ==
    /\ \A p \in TgProcs : tg[p].pc = "done" => tg[p].http = 200
    /\ \A p \in MailProcs : gw[p].pc = "done" => ~gw[p].raised

\* An update of another sender than the configured user has been handled.
OtherSenderHandled(p) ==
    tg[p].pc = "done" /\ cfg.user /\ ~tg[p].allowed

\* C27: an update whose sender is not the configured user is answered with
\* HTTP 200 and ignored: no conversation state and no store record changes,
\* and nothing is sent, edited or acknowledged.
C27_OtherSenderIgnored ==
    /\ [](\A p \in TgProcs :
            OtherSenderHandled(p) =>
                /\ tg[p].http = 200
                /\ tg[p].answer = "" /\ ~tg[p].acked)
    /\ [][\A p \in TgProcs :
            (tg[p].pc = "idle" /\ tg'[p].pc # "idle" /\ cfg.user /\ ~tg'[p].allowed)
              => /\ tg'[p].pc = "done"
                 /\ UNCHANGED <<manual_new_state, custom_datetime_state, rows,
                                liveCards, nsent>>]_vars

\* C28: a mutating store call applied a second time, right after the first,
\* leaves the sheet as the first application left it.
C28_StoreCallsIdempotent ==
    [][\A call \in StoreCalls :
         (rows' = ApplyCall(rows, call) /\ rows' # rows)
           => ApplyCall(rows', call) = rows']_vars

ReminderInvariant(row) ==
    /\ row.source_type = "manual"
         => /\ row.description # ""
            /\ row.subject = <<>> /\ row.sender = <<>> /\ row.gmail_message_id = 0
    /\ row.source_type = "email"
         => /\ row.subject # <<>> /\ row.sender # <<>> /\ row.gmail_message_id # 0
            /\ row.description = ""

\* C30: every record in the store satisfies the Reminder invariant: a manual
\* one has a description and no subject, sender or mail message id, an email
\* one has a subject, a sender and a mail message id and no description.
C30_RecordsSatisfyInvariant ==
    \A i \in DOMAIN rows : ReminderInvariant(rows[i])

\* app.py 1537-1545 and 1657-1671: the JSON body gmail_webhook returns after
\* a listing, given the checkpoint in memory when it returns.
WebhookResponse(g, after) ==
    IF g.mode = "error"
    THEN [ok |-> FALSE, historyId |-> g.history_id]
    ELSE [ok |-> TRUE, mode |-> g.mode, push_historyId |-> g.history_id,
          last_history_id_before |-> g.last,
          new_message_ids |-> g.new_message_ids,
          latest_history_id |-> g.latest,
          last_history_id_after |-> after,
          telegram_dispatched |-> Cardinality(g.cards)]

\* The response of a pass from the same checkpoint whose listing succeeded,
\* found no message and ended with the history id latest.
ZeroPassResponse(g, latest) ==
    WebhookResponse([g EXCEPT !.mode = "history", !.new_message_ids = <<>>,
                              !.latest = latest, !.cards = {}],
                    IF ShouldUpdate(latest, g.last) THEN latest ELSE g.last)

\* C31: the response of a pass whose listing was aborted by a provider error
\* differs from the response of every successful pass, from the same
\* checkpoint, that found no new message.
C31_FailedPassReported ==
    \A p \in MailProcs :
        (gw[p].pc = "done" /\ gw[p].failed /\ ~gw[p].raised)
          => \A latest \in StrIds \cup {None} :
                WebhookResponse(gw[p], LAST_HISTORY_ID) # ZeroPassResponse(gw[p], latest)

\* ---- the dispatcher alone, over sheets of several reminders, with faults
\* Sheets of up to most stored manual reminders, pending or notified.
TriggerSheets(most) ==
    UNION {[1..n -> {0, 1} \X {"pending", "notified"}] : n \in 0..most}

InitTrigger(most) ==
    /\ cfg \in StoreConfigs
    /\ config_sheet = None
    /\ LAST_HISTORY_ID = None
    /\ gw = [p \in MailProcs |-> IdleGw]
    /\ dp = [p \in DispProcs |-> IdleDp]
    /\ tg = [p \in TgProcs |-> IdleTg]
    /\ manual_new_state = [c \in Chats |-> None]
    /\ custom_datetime_state = [c \in Chats |-> None]
    /\ chatFlow = [c \in Chats |-> Flow(NoFlow, Untracked, Untracked)]
    /\ now = 0
    /\ sentDue = [id \in StoreIds |-> NoTime]
    /\ nsent = [id \in StoreIds |-> 0]
    /\ liveCards = [id \in StoreIds |-> 0]
    /\ \E sheet \in TriggerSheets(most) :
        /\ rows = [i \in DOMAIN sheet |->
                     [ReminderRow(ManualReminder(Uuid(i), "milk", TelegramUserId,
                                                 sheet[i][1]))
                        EXCEPT !.status = sheet[i][2]]]
        /\ nextId = Len(sheet) + 1

NextTrigger ==
    \/ \E p \in DispProcs : DispatchStart(p, TRUE, TRUE)
    \/ \E p \in DispProcs : DispatchSend(p, TRUE)
    \/ \E p \in DispProcs : DispatchLookup(p, TRUE)
    \/ \E p \in DispProcs : DispatchWrite(p, TRUE)
    \/ \E p \in DispProcs : DispatchReturn(p)
    \/ Tick

SpecTrigger == InitTrigger(MaxRows + 1) /\ [][NextTrigger]_vars

\* The ids of the first k reminders of a trigger's listing, in its order.
ListedIds(d, k) == [i \in 1..k |-> d.due[i].reminder_id]

\* The number of listed reminders a trigger has attempted to send so far.
Reached(d) ==
    IF d.pc = "send" THEN d.idx - 1
    ELSE IF d.pc \in {"lookup", "write"} THEN d.idx
    ELSE Len(d.due)

\* C32: whatever sends and status writes failed, a trigger has attempted one
\* send for each listed reminder it has passed, in the listing's order, and
\* when it returns it has attempted each listed reminder once; the listing
\* is the due query's answer, in the sheet's order.
C32_EveryDueReminderAttempted ==
    /\ [](\A p \in DispProcs :
            dp[p].pc # "idle" => dp[p].attempted = ListedIds(dp[p], Reached(dp[p])))
    /\ [][\A p \in DispProcs :
            (dp[p].pc = "idle" /\ dp'[p].pc = "send")
              => dp'[p].due = GetDueReminders(rows, now)]_vars

\* A trigger has returned after the send of its first reminder failed and the
\* status write of its second failed, both attempted in the sheet's order.
C32_Witness ==
    \E p \in DispProcs :
        /\ dp[p].pc = "done" /\ dp[p].http = 200
        /\ Len(dp[p].due) = 2
        /\ dp[p].attempted = <<dp[p].due[1].reminder_id, dp[p].due[2].reminder_id>>
        /\ dp[p].sendFailed = {dp[p].due[1].reminder_id}
        /\ dp[p].tried = {dp[p].due[2].reminder_id}
        /\ dp[p].wrote = {}

\* telegram_bot.py 92-106: the callback data of the buttons of the keyboard
\* sent with "When should I remind you?".
build_manual_offset_keyboard ==
    {<<"manual_offset", "1h">>, <<"manual_offset", "1d">>,
     <<"manual_offset", "3d">>, <<"manual_offset", "1w">>}

\* C33: the card sent after a non-empty description carries the manual_offset
\* tokens of the four fixed durations and of the custom choice.
C33_OffsetCardOffersCustom ==
    \A p \in TgProcs :
        (tg[p].pc = "done" /\ tg[p].answer = "When should I remind you?")
          => {<<"manual_offset", key>> : key \in FixedKeys \cup {"custom"}}
               \subseteq build_manual_offset_keyboard

\* A manual_offset press whose key is neither a fixed one nor custom has been
\* handled.
UnknownKeyHandled(p) ==
    /\ tg[p].pc = "done" /\ tg[p].branch = "manual_offset"
    /\ tg[p].chat \in Chats
    /\ tg[p].data[2] \notin FixedKeys \cup {"custom"}

\* C34: the resolver gives 1 hour, 1 day, 3 days and 7 days (in hours) for
\* 1h, 1d, 3d and 1w and nothing for every other key, custom included; a
\* press with an unknown key leaves the store and the chat's states as they
\* were.
C34_ResolverAndUnknownKey ==
    /\ offset_key_to_delta("1h") = 1 /\ offset_key_to_delta("1d") = 24
    /\ offset_key_to_delta("3d") = 3 * 24 /\ offset_key_to_delta("1w") = 7 * 24
    /\ \A key \in OffsetKeys \ FixedKeys : offset_key_to_delta(key) = NoDelta
    /\ \A p \in TgProcs :
         UnknownKeyHandled(p) =>
            /\ rows = tg[p].before.rows
            /\ manual_new_state[tg[p].chat] = tg[p].before.manual
            /\ custom_datetime_state[tg[p].chat] = tg[p].before.custom

\* A chat at the offset keyboard pressed an unknown key and was told so.
C34_Witness ==
    \E p \in TgProcs :
        /\ UnknownKeyHandled(p)
        /\ tg[p].answer = "Unknown offset."
        /\ tg[p].before.manual # None
        /\ tg[p].before.manual.stage = "awaiting_offset"

\* A trigger has just listed the due reminders.
TriggerListed(p) ==
    dp[p].pc = "idle" /\ dp'[p].pc \in {"send", "done"} /\ dp'[p].http # 500

\* The ids a trigger listed.
ListedSet(d) == {d.due[i].reminder_id : i \in DOMAIN d.due}

C35_WitnessNotResent ==
    \E p \in DispProcs :
        /\ dp[p].pc = "done" /\ dp[p].http = 200 /\ dp[p].due = <<>>
        /\ \E id \in IdsIn(rows) :
             nsent[id] >= 1 /\ StatusOf(rows, id) = "notified" /\ DueOf(rows, id) <= now

\* C36: a manual reminder created by a fixed-offset press on an offset card
\* carries the description that was entered to produce that card.
C36_CardDescriptionStored ==
    \A p \in TgProcs :
        (/\ tg[p].pc = "done" /\ tg[p].branch = "manual_offset"
         /\ tg[p].answer = "Reminder created."
         /\ tg[p].card # NoCard)
          => rows[Len(rows)].description = tg[p].card

\* ---- the dispatcher alone, triggered again and again
\* The external scheduler keeps calling the endpoint and a started request
\* runs to its end; the listing, the sends, the lookups and the status writes
\* succeed again and again.
FairTrigger ==
    \A p \in DispProcs :
        /\ WF_vars(DispatchReturn(p))
        /\ SF_vars(DispatchStart(p, TRUE, FALSE))
        /\ SF_vars(DispatchSend(p, FALSE))
        /\ SF_vars(DispatchLookup(p, FALSE))
        /\ SF_vars(DispatchWrite(p, FALSE))

SpecTriggerFair == InitTrigger(MaxRows) /\ [][NextTrigger]_vars /\ FairTrigger

\* C37: with the bot and the store configured, a stored reminder that is
\* pending and past its due time is eventually sent and stored as notified.
C37_DueReminderEventuallyNotified ==
    \A id \in StoreIds :
        (cfg.bot /\ cfg.repo /\ StatusOf(rows, id) = "pending" /\ DueOf(rows, id) <= now)
          ~> (nsent[id] >= 1 /\ StatusOf(rows, id) = "notified")

\* A reminder whose first send failed and whose first status write failed has
\* been sent and is stored as notified.
C37_Witness ==
    \E id \in StoreIds, p \in DispProcs :
        /\ nsent[id] >= 2 /\ StatusOf(rows, id) = "notified"
        /\ id \in dp[p].wrote

\* A Cancel press on a prompt sent for another mode than the one the chat's
\* custom state had at the press has been handled.
EarlierPromptCancelled(p) ==
    /\ CancelHandled(p)
    /\ tg[p].card # NoCard
    /\ tg[p].before.custom # None
    /\ tg[p].before.custom.mode # tg[p].card

SnoozeFailed(p) ==
    /\ tg[p].pc = "done" /\ tg[p].branch = "extend"
    /\ tg[p].chat \in Chats
    /\ tg[p].before # None
    /\ tg[p].answer = "Failed to snooze reminder."

\* C39: when update_reminder_due_at raises part-way, the target reminder's
\* due_at and status are both as the press found them; no reminder has the new
\* due_at while its status is still notified.
C39_UpdateDueAtAllOrNothing ==
    \A p \in TgProcs :
        SnoozeFailed(p) =>
            /\ DueOf(rows, tg[p].reminder_id) = DueOf(tg[p].before.rows, tg[p].reminder_id)
            /\ StatusOf(rows, tg[p].reminder_id) = StatusOf(tg[p].before.rows, tg[p].reminder_id)

\* ---- the conversation handlers with overlapping fixed-offset presses: the
\* texts are handled one request at a time, the presses and their store calls
\* interleave. uuid4 gives fresh ids, numbered from 0 here.
InitChatConc ==
    /\ cfg = FullConfig
    /\ config_sheet = None
    /\ LAST_HISTORY_ID = None
    /\ InitProcess
    /\ rows = <<>>
    /\ nextId = 0

NextChatConc ==
    \/ \E p \in TgProcs : TgMessage(p, TRUE, FALSE, UserChats, OtherTexts)
    \/ \E p \in TgProcs : TgManualOffset(p, FALSE, FALSE, UserChats, OtherKeys)
    \/ \E p \in TgProcs : TgManualCreate(p, FALSE)
    \/ \E p \in TgProcs : TgReturn(p)
    \/ Tick

SpecChatConc == InitChatConc /\ [][NextChatConc]_vars

\* A fixed-offset press of a chat in awaiting_offset has created its reminder.
OffsetPressCreated(p) ==
    /\ tg[p].pc = "done" /\ tg[p].branch = "manual_offset"
    /\ tg[p].chat \in Chats
    /\ tg[p].answer = "Reminder created."

\* The rows with the description that were appended to the sheet old.
AddedWith(old, description) ==
    {i \in DOMAIN rows : i > Len(old) /\ rows[i].description = description}

\* C40: fixed-offset presses of one chat in awaiting_offset that are handled
\* concurrently create at most one reminder record for the description: since
\* a press that created a reminder read the chat's state, one row with that
\* description has been appended.
C40_ConcurrentPressesCreateOne ==
    \A p \in TgProcs :
        OffsetPressCreated(p) =>
            Cardinality(AddedWith(tg[p].before.rows, tg[p].description)) <= 1

====
